---- MODULE Spec2Model ----
(***************************************************************************)
(* retsnoop: the per-CPU call-stack automaton (src/src/retsnoop.bpf.c),    *)
(* the error classification of a return value, and the registry flags      *)
(* computed by func_flags (src/src/retsnoop.c).                            *)
(*                                                                         *)
(* A 64-bit register value is a tuple of four 16-bit limbs, most           *)
(* significant first, so that comparisons and truncations are computed on  *)
(* the full width.  A function's flags word is the set of the FUNC_* bits  *)
(* that are set in it.                                                     *)
(*                                                                         *)
(* Values stored in the automaton carry a label naming the call that       *)
(* stored them (call = serial number of the accepted entry); the labels    *)
(* are history information only and are never read by the modelled code.   *)
(***************************************************************************)
EXTENDS Integers, Sequences, FiniteSets, TLC

VARIABLES
    stack,       \* struct call_stack stacks[cpu] of the one core modelled
    now,         \* bpf_ktime_get_ns(), one tick per accepted probe
    emits,       \* number of bpf_ringbuf_output calls so far
    last_event,  \* the snapshot handed to the last bpf_ringbuf_output call
    last,        \* history: what the last probe did
    calls,       \* history: serial number of the last accepted entry
    nest,        \* history: the open calls of the invocation being followed
    ok,          \* history: that invocation has been properly nested so far
    inv,         \* history: bookkeeping of the invocation being followed
    c_in,        \* classification run: the registry input and the raw result
    c_out,       \* classification run: flags computed and the verdict
    c_pc,        \* classification run: "in" before, "out" after
    env,         \* consumer: the error-filter fields of struct env
    f_hist,      \* consumer history: the errnos named by -x and by -X so far
    f_ev,        \* consumer: the record handed to handle_event
    f_out,       \* consumer: what handle_event did with it
    f_pc,        \* consumer: "args" while parsing, then "done" or "failed"
    k_in,        \* reconstruction run: the raw stack, the logical names, the mode
    k_out,       \* reconstruction run: the extracted raw stack and the lines
    k_pc,        \* reconstruction run: "in" before, "out" after
    cor_stacks,  \* several cores: struct call_stack stacks[MAX_CPU_CNT]
    cor_alone,   \* several cores: each core's automaton fed its own probes only
    cor_out,     \* several cores: the records each core has output
    cor_alone_out, \* several cores: the records of each automaton run alone
    cor_n,       \* several cores: number of probes so far
    cor_pc,      \* several cores: "run" while the probes fire
    d_in,        \* decoded record: the header fields handle_event is given
    d_out,       \* decoded record: what handle_event did
    d_pc         \* decoded record: "in" before, "out" after

vars == <<stack, now, emits, last_event, last, calls, nest, ok, inv, c_in, c_out, c_pc,
          env, f_hist, f_ev, f_out, f_pc, k_in, k_out, k_pc,
          cor_stacks, cor_alone, cor_out, cor_alone_out, cor_n, cor_pc,
          d_in, d_out, d_pc>>

autoVars == <<stack, now, emits, last_event, last, calls, nest, ok, inv>>

clsVars == <<c_in, c_out, c_pc>>

fltVars == <<env, f_hist, f_ev, f_out, f_pc>>

recVars == <<k_in, k_out, k_pc>>

corVars == <<cor_stacks, cor_alone, cor_out, cor_alone_out, cor_n, cor_pc>>

decVars == <<d_in, d_out, d_pc>>

(***************************************************************************)
(* Bounds of the model.                                                    *)
(***************************************************************************)
\* depth of the frame arrays (MAX_FSTACK_DEPTH of retsnoop.h, scaled down)
MAX_FSTACK_DEPTH == 3

\* accepted entries in one behaviour
MaxCalls == 5

(***************************************************************************)
(* 64-bit values.                                                          *)
(***************************************************************************)
LimbTop == 2^16 - 1

U64Zero == <<0, 0, 0, 0>>

\* lexicographic comparison of two limb tuples: a < b as unsigned numbers
RECURSIVE LimbsLt(_, _, _)
LimbsLt(a, b, i) ==
    IF i > Len(a) THEN FALSE
    ELSE IF a[i] # b[i] THEN a[i] < b[i]
    ELSE LimbsLt(a, b, i + 1)

U64Lt(a, b) == LimbsLt(a, b, 1)

U64Ge(a, b) == ~U64Lt(a, b)

U64Gt(a, b) == U64Lt(b, a)

\* (long)(int)x: the low 32 bits, sign-extended to 64 bits
SignExtend32(x) ==
    LET s == IF x[3] >= 2^15 THEN LimbTop ELSE 0
    IN  <<s, s, x[3], x[4]>>

(***************************************************************************)
(* Error classification, retsnoop.bpf.c.                                   *)
(***************************************************************************)
MAX_ERRNO == 4095

\* (unsigned long)-MAX_ERRNO = 0xfffffffffffff001
NegMaxErrno64 == <<LimbTop, LimbTop, LimbTop, (LimbTop + 1) - MAX_ERRNO>>

\* 0xfffff001
NegMaxErrno32 == <<0, 0, LimbTop, (LimbTop + 1) - MAX_ERRNO>>

\* 0xffffffff
AllOnes32 == <<0, 0, LimbTop, LimbTop>>

\* the comparison made strict
IS_ERR_VALUE_strict(x) == U64Gt(x, NegMaxErrno64)

IS_ERR_VALUE(x) == U64Ge(x, NegMaxErrno64)

IS_ERR_VALUE32(x) ==
    IF U64Lt(x, NegMaxErrno32) THEN FALSE
    ELSE IF U64Gt(x, AllOnes32) THEN FALSE
    ELSE TRUE

\* the verdict handle_func_exit passes to pop_call_stack
FuncExitFailed(flags, ret) ==
    IF "CANT_FAIL" \in flags THEN FALSE
    ELSE LET failed == IF "NEEDS_SIGN_EXT" \in flags
                       THEN IS_ERR_VALUE32(ret)
                       ELSE IS_ERR_VALUE(ret)
         IN  IF "RET_PTR" \in flags /\ ret = U64Zero THEN TRUE ELSE failed

(***************************************************************************)
(* Registry flags, retsnoop.c.                                             *)
(***************************************************************************)
\* The BTF return type after btf_is_mod/btf_is_typedef links are skipped.
\* has_btf is (btf_id != 0).
BtfKinds == {"void", "ptr", "int", "other"}

BtfSizes == {1, 2, 4, 8}

BtfTypes ==
    [has_btf : BOOLEAN, kind : BtfKinds, is_bool : BOOLEAN,
     is_signed : BOOLEAN, size : BtfSizes]

\* a void return type flagged RET_VOID only
func_flags_void_only(t) ==
    IF ~t.has_btf THEN {"NEEDS_SIGN_EXT"}
    ELSE IF t.kind = "void" THEN {"RET_VOID"}
    ELSE IF t.kind = "ptr" THEN {"RET_PTR"}
    ELSE IF t.kind = "int" /\ t.is_bool THEN {"CANT_FAIL", "RET_BOOL"}
    ELSE IF t.kind = "int" /\ ~t.is_signed THEN {"CANT_FAIL"}
    ELSE IF t.size < 4 THEN {"CANT_FAIL"}
    ELSE IF t.size = 4 THEN {"NEEDS_SIGN_EXT"}
    ELSE {}

func_flags(t) ==
    IF ~t.has_btf THEN {"NEEDS_SIGN_EXT"}
    ELSE IF t.kind = "void" THEN {"CANT_FAIL", "RET_VOID"}
    ELSE IF t.kind = "ptr" THEN {"RET_PTR"}
    ELSE IF t.kind = "int" /\ t.is_bool THEN {"CANT_FAIL", "RET_BOOL"}
    ELSE IF t.kind = "int" /\ ~t.is_signed THEN {"CANT_FAIL"}
    ELSE IF t.size < 4 THEN {"CANT_FAIL"}
    ELSE IF t.size = 4 THEN {"NEEDS_SIGN_EXT"}
    ELSE {}

\* main: flags = func_flags(...); flags |= FUNC_IS_ENTRY when an entry glob matches
RegistryFlags(t, is_entry) ==
    func_flags(t) \cup (IF is_entry THEN {"IS_ENTRY"} ELSE {})

(***************************************************************************)
(* The registry of the model: func_flags[] of retsnoop.bpf.c as main       *)
(* fills it.  Function 0 returns int and matches an entry glob, function 1 *)
(* returns a pointer.  Ids are below MAX_FUNC_CNT, so id & MAX_FUNC_MASK   *)
(* is id.                                                                  *)
(***************************************************************************)
FuncIds == {0, 1}

BtfInt32 == [has_btf |-> TRUE, kind |-> "int", is_bool |-> FALSE, is_signed |-> TRUE, size |-> 4]

BtfPtr == [has_btf |-> TRUE, kind |-> "ptr", is_bool |-> FALSE, is_signed |-> FALSE, size |-> 8]

func_flags_bss ==
    [id \in FuncIds |-> IF id = 0 THEN RegistryFlags(BtfInt32, TRUE)
                                  ELSE RegistryFlags(BtfPtr, FALSE)]

\* raw results the probed functions return: 0 and 0x00000000fffffffe
RawResults == {U64Zero, <<0, 0, LimbTop, LimbTop - 1>>}

\* what bpf_get_stack returns: the size in bytes of the stack it wrote
KstackRets == {16}

(***************************************************************************)
(* struct call_stack.  The arrays are indexed 0 .. MAX_FSTACK_DEPTH-1.     *)
(***************************************************************************)
Slots == 0 .. (MAX_FSTACK_DEPTH - 1)

NoId == [id |-> 0, call |-> 0, parent |-> 0]

NoRes == [v |-> U64Zero, call |-> 0]

ZeroStack ==
    [func_ids |-> [i \in Slots |-> NoId],
     func_res |-> [i \in Slots |-> NoRes],
     func_lat |-> [i \in Slots |-> 0],
     depth |-> 0,
     max_depth |-> 0,
     is_err |-> FALSE,
     saved_ids |-> [i \in Slots |-> NoId],
     saved_res |-> [i \in Slots |-> NoRes],
     saved_lat |-> [i \in Slots |-> 0],
     saved_depth |-> 0,
     saved_max_depth |-> 0,
     kstack |-> 0,
     kstack_sz |-> 0]

\* the saved window starting one slot too low
save_stitch_stack_low(s) ==
    [s EXCEPT !.saved_ids = s.func_ids,
              !.saved_res = s.func_res,
              !.saved_lat = s.func_lat,
              !.saved_depth = s.depth,
              !.saved_max_depth = s.max_depth]

\* the saved window kept as it is when it chains onto the primary frames
save_stitch_stack_extend(s) ==
    IF s.max_depth + 1 # s.saved_depth
    THEN [s EXCEPT !.saved_ids = s.func_ids,
                   !.saved_res = s.func_res,
                   !.saved_lat = s.func_lat,
                   !.saved_depth = s.depth + 1,
                   !.saved_max_depth = s.max_depth]
    ELSE [s EXCEPT !.saved_depth = s.depth + 1,
                   !.saved_max_depth = s.max_depth]

\* both branches of the if copy the three arrays and set the two depths
save_stitch_stack(s) ==
    [s EXCEPT !.saved_ids = s.func_ids,
              !.saved_res = s.func_res,
              !.saved_lat = s.func_lat,
              !.saved_depth = s.depth + 1,
              !.saved_max_depth = s.max_depth]

\* the condition under which push_call_stack stitches
NeedsStitch(s) == s.depth # s.max_depth /\ s.is_err

\* the overflow guard taken one level early
PushRejected_early(s, id) ==
    \/ s.depth = 0 /\ "IS_ENTRY" \notin func_flags_bss[id]
    \/ s.depth >= MAX_FSTACK_DEPTH - 1

\* the early returns without the test of the entry flag
PushRejected_noentry(s, id) == s.depth >= MAX_FSTACK_DEPTH

\* the two early returns of push_call_stack, lines 71-75
PushRejected(s, id) ==
    \/ s.depth = 0 /\ "IS_ENTRY" \notin func_flags_bss[id]
    \/ s.depth >= MAX_FSTACK_DEPTH

\* max_depth set to the index instead of the depth
PushFrame_maxidx(s, d, idv, t) ==
    [s EXCEPT !.func_ids[d] = idv,
              !.is_err = FALSE,
              !.depth = d + 1,
              !.max_depth = d,
              !.func_lat[d] = t]

\* the writes of an accepted entry that also drop the raw stack
PushFrame_dropkstack(s, d, idv, t) ==
    [s EXCEPT !.func_ids[d] = idv,
              !.is_err = FALSE,
              !.depth = d + 1,
              !.max_depth = d + 1,
              !.func_lat[d] = t,
              !.kstack_sz = 0]

\* the writes of an accepted entry at depth d, lines 86-90
PushFrame(s, d, idv, t) ==
    [s EXCEPT !.func_ids[d] = idv,
              !.is_err = FALSE,
              !.depth = d + 1,
              !.max_depth = d + 1,
              !.func_lat[d] = t]

\* push_call_stack stitching after the new frame is written
push_call_stack_stitch_after(s, idv, t) ==
    IF PushRejected(s, idv.id)
    THEN [st |-> s, ret |-> FALSE]
    ELSE LET w == PushFrame(s, s.depth, idv, t)
         IN  [st |-> IF NeedsStitch(s)
                     THEN [w EXCEPT !.saved_ids = w.func_ids,
                                    !.saved_res = w.func_res,
                                    !.saved_lat = w.func_lat,
                                    !.saved_depth = s.depth + 1,
                                    !.saved_max_depth = s.max_depth]
                     ELSE w,
              ret |-> TRUE]

\* push_call_stack storing the id before it checks the depth
push_call_stack_store_first(s, idv, t) ==
    IF PushRejected(s, idv.id)
    THEN [st |-> IF s.depth < MAX_FSTACK_DEPTH
                 THEN [s EXCEPT !.func_ids[s.depth] = idv] ELSE s,
          ret |-> FALSE]
    ELSE [st |-> PushFrame(IF NeedsStitch(s) THEN save_stitch_stack(s) ELSE s,
                           s.depth, idv, t),
          ret |-> TRUE]

\* idv is the function id with the label of this call; t is bpf_ktime_get_ns()
push_call_stack(s, idv, t) ==
    IF PushRejected(s, idv.id)
    THEN [st |-> s, ret |-> FALSE]
    ELSE [st |-> PushFrame(IF NeedsStitch(s) THEN save_stitch_stack(s) ELSE s,
                           s.depth, idv, t),
          ret |-> TRUE]

\* the reset leaving depth as it was
MismatchReset_keepdepth(s) ==
    [s EXCEPT !.max_depth = 0,
              !.is_err = FALSE,
              !.kstack_sz = 0]

\* the reset on an unexpected id, lines 140-143
MismatchReset(s) ==
    [s EXCEPT !.depth = 0,
              !.max_depth = 0,
              !.is_err = FALSE,
              !.kstack_sz = 0]

\* no reset after the output: the completed frame stays open for a retry
EmitReset_retry(s) == [s EXCEPT !.depth = 1]

\* the reset after the event is emitted leaving the saved segment
EmitReset_keepsaved(s) ==
    [s EXCEPT !.is_err = FALSE,
              !.depth = 0,
              !.max_depth = 0,
              !.kstack_sz = 0]

\* the reset after the event is emitted, lines 169-174
EmitReset(s) ==
    [s EXCEPT !.is_err = FALSE,
              !.saved_depth = 0,
              !.saved_max_depth = 0,
              !.depth = 0,
              !.max_depth = 0,
              !.kstack_sz = 0]

\* the first failure recorded with max_depth one too high
RecordFailure_above(s, d, kst) ==
    [s EXCEPT !.is_err = TRUE,
              !.max_depth = IF d + 2 <= MAX_FSTACK_DEPTH THEN d + 2 ELSE d + 1,
              !.kstack = kst.call,
              !.kstack_sz = kst.sz]

\* the first failure recorded without moving max_depth
RecordFailure_keepmax(s, d, kst) ==
    [s EXCEPT !.is_err = TRUE,
              !.kstack = kst.call,
              !.kstack_sz = kst.sz]

\* the first failure of a logical stack, lines 150-155; kst is what
\* bpf_get_stack returns and the label of the stack it wrote
RecordFailure(s, d, kst) ==
    [s EXCEPT !.is_err = TRUE,
              !.max_depth = d + 1,
              !.kstack = kst.call,
              !.kstack_sz = kst.sz]

\* the check of the recorded id against the exiting function, lines 126-127
UnexpectedId(s, d, id) == s.func_ids[d].id # id

\* the result and the latency of the returning call, lines 147-148
RecordResult(s, d, res, t) ==
    [s EXCEPT !.func_res[d] = res,
              !.func_lat[d] = t - s.func_lat[d]]

\* pop_call_stack recording every failure, also in an error state
pop_call_stack_recapture(s, id, res, is_err, t, kst) ==
    IF s.depth = 0
    THEN [st |-> s, ret |-> FALSE, emit |-> FALSE, ev |-> s]
    ELSE LET d == s.depth - 1
         IN  IF UnexpectedId(s, d, id)
             THEN [st |-> MismatchReset(s), ret |-> FALSE, emit |-> FALSE, ev |-> s]
             ELSE LET s1 == RecordResult(s, d, res, t)
                      s2 == IF is_err THEN RecordFailure(s1, d, kst) ELSE s1
                      s3 == [s2 EXCEPT !.depth = d]
                  IN  IF d = 0
                      THEN [st |-> EmitReset(s3), ret |-> TRUE, emit |-> TRUE, ev |-> s3]
                      ELSE [st |-> s3, ret |-> TRUE, emit |-> FALSE, ev |-> s3]

\* res is the raw result with the label of the returning call; emit says
\* whether bpf_ringbuf_output was called, ev is the snapshot it was given
pop_call_stack(s, id, res, is_err, t, kst) ==
    IF s.depth = 0
    THEN [st |-> s, ret |-> FALSE, emit |-> FALSE, ev |-> s]
    ELSE LET d == s.depth - 1
         IN  IF d >= MAX_FSTACK_DEPTH
             THEN [st |-> s, ret |-> FALSE, emit |-> FALSE, ev |-> s]
             ELSE IF UnexpectedId(s, d, id)
             THEN [st |-> MismatchReset(s), ret |-> FALSE, emit |-> FALSE, ev |-> s]
             ELSE LET s1 == RecordResult(s, d, res, t)
                      s2 == IF is_err /\ ~s1.is_err THEN RecordFailure(s1, d, kst) ELSE s1
                      s3 == [s2 EXCEPT !.depth = d]
                  IN  IF d = 0
                      THEN [st |-> EmitReset(s3), ret |-> TRUE, emit |-> TRUE, ev |-> s3]
                      ELSE [st |-> s3, ret |-> TRUE, emit |-> FALSE, ev |-> s3]

(***************************************************************************)
(* The consumer's error filter (src/src/retsnoop.c): the masks built by    *)
(* parse_arg, should_report_stack and filter_fstack.  An error mask is the *)
(* set of the bit positions that are set in it.                            *)
(***************************************************************************)
\* size of an error mask in bits (MAX_ERR_CNT of retsnoop.h, scaled down)
MAX_ERR_CNT == 16

\* rule arguments (-x, -X) given on one command line
MaxRules == 3

AllErrs == 0 .. (MAX_ERR_CNT - 1)

\* the entries of err_map that the modelled command lines name
err_map == [i \in {2, 13} |-> IF i = 2 THEN "ENOENT" ELSE "EACCES"]

\* an argument of -x or -X: an optional leading '-' and a name
RuleArgs ==
    { [dash |-> FALSE, name |-> "ENOENT"],
      [dash |-> TRUE,  name |-> "ENOENT"],
      [dash |-> FALSE, name |-> "EACCES"],
      [dash |-> FALSE, name |-> "EWHAT"] }

\* str_to_err: the index of the name in err_map, -ENOENT when it has none
str_to_err(arg) ==
    IF \E i \in DOMAIN err_map : err_map[i] = arg.name
    THEN CHOOSE i \in DOMAIN err_map : err_map[i] = arg.name
    ELSE -2

err_mask_set(err_mask, v) == err_mask \cup {v}

\* struct env as main leaves it before argp_parse
EnvInit ==
    [allow_error_cnt |-> 0,
     has_error_filter |-> FALSE,
     allow_error_mask |-> AllErrs,
     deny_error_mask |-> {},
     emit_success_stacks |-> FALSE]

\* case 'x' resetting the allow mask at every rule
parse_allow_reset_always(e, err) ==
    [e EXCEPT !.allow_error_mask = {err},
              !.allow_error_cnt = @ + 1,
              !.has_error_filter = TRUE]

\* parse_arg, case 'x', for a recognized name
parse_allow(e, err) ==
    LET m == IF e.allow_error_cnt = 0 THEN {} ELSE e.allow_error_mask
    IN  [e EXCEPT !.allow_error_mask = err_mask_set(m, err),
                  !.allow_error_cnt = @ + 1,
                  !.has_error_filter = TRUE]

\* parse_arg, case 'X', for a recognized name
parse_deny(e, err) ==
    [e EXCEPT !.deny_error_mask = err_mask_set(@, err),
              !.has_error_filter = TRUE]

\* the value of an int assigned from a 64-bit result: its low 32 bits, signed
Int32Of(x) ==
    IF x[3] >= 2^15 THEN (x[3] - 2^16) * 2^16 + x[4]
    ELSE x[3] * 2^16 + x[4]

is_err_in_mask(err_mask, err) ==
    LET a == IF err < 0 THEN -err ELSE err
    IN  IF a >= MAX_ERR_CNT THEN FALSE ELSE a \in err_mask

\* one loop of should_report_stack over the indices i .. n-1: ids is the id
\* array it reads, res the result array; denied is the early return false
RECURSIVE ScanFrames(_, _, _, _, _, _)
ScanFrames(e, ids, res, i, n, allowed) ==
    IF i >= n THEN [denied |-> FALSE, allowed |-> allowed]
    ELSE LET flags == func_flags_bss[ids[i].id]
             r == Int32Of(res[i].v)
         IN  IF "CANT_FAIL" \in flags
             THEN ScanFrames(e, ids, res, i + 1, n, allowed)
             ELSE IF r = 0 /\ "RET_PTR" \notin flags
             THEN ScanFrames(e, ids, res, i + 1, n, allowed)
             ELSE IF is_err_in_mask(e.deny_error_mask, r)
             THEN [denied |-> TRUE, allowed |-> allowed]
             ELSE ScanFrames(e, ids, res, i + 1, n,
                             allowed \/ is_err_in_mask(e.allow_error_mask, r))

\* should_report_stack ignoring the deny mask
should_report_stack_nodeny(e, s) ==
    IF ~e.has_error_filter THEN TRUE
    ELSE LET e0 == [e EXCEPT !.deny_error_mask = {}]
             p == ScanFrames(e0, s.func_ids, s.func_res, 0, s.max_depth, FALSE)
         IN  IF s.max_depth + 1 # s.saved_depth THEN p.allowed
             ELSE ScanFrames(e0, s.saved_ids, s.func_res, s.saved_depth - 1,
                             s.saved_max_depth, p.allowed).allowed

\* the second loop takes the id from saved_ids and the result from func_res
should_report_stack(e, s) ==
    IF ~e.has_error_filter THEN TRUE
    ELSE LET p == ScanFrames(e, s.func_ids, s.func_res, 0, s.max_depth, FALSE)
         IN  IF p.denied THEN FALSE
             ELSE IF s.max_depth + 1 # s.saved_depth THEN p.allowed
             ELSE LET q == ScanFrames(e, s.saved_ids, s.func_res, s.saved_depth - 1,
                                      s.saved_max_depth, p.allowed)
                  IN  IF q.denied THEN FALSE ELSE q.allowed

\* the result filter_fstack stores for a function with these flags
ItemRes(flags, v) == IF "NEEDS_SIGN_EXT" \in flags THEN SignExtend32(v) ELSE v

\* the item of primary frame i, finished when i < depth
PrimaryItem_inverted(s, i) ==
    [id |-> s.func_ids[i].id,
     res |-> ItemRes(func_flags_bss[s.func_ids[i].id], s.func_res[i].v),
     lat |-> s.func_lat[i],
     finished |-> (i < s.depth),
     stitched |-> FALSE]

\* the item filter_fstack writes for primary frame i, lines 844-866
PrimaryItem(s, i) ==
    [id |-> s.func_ids[i].id,
     res |-> ItemRes(func_flags_bss[s.func_ids[i].id], s.func_res[i].v),
     lat |-> s.func_lat[i],
     finished |-> (i >= s.depth),
     stitched |-> FALSE]

\* the item filter_fstack writes for stitched frame i, lines 873-887
StitchedItem(s, i) ==
    [id |-> s.saved_ids[i].id,
     res |-> ItemRes(func_flags_bss[s.saved_ids[i].id], s.saved_res[i].v),
     lat |-> s.saved_lat[i],
     finished |-> TRUE,
     stitched |-> TRUE]

\* filter_fstack appending the stitched frames whether or not they chain
filter_fstack_unchecked(s) ==
    LET prim == [k \in 1 .. s.max_depth |-> PrimaryItem(s, k - 1)]
    IN  IF s.saved_depth = 0 THEN prim
        ELSE prim \o [k \in 1 .. (s.saved_max_depth - s.saved_depth + 1) |->
                         StitchedItem(s, s.saved_depth - 2 + k)]

\* filter_fstack: the items r[0 .. cnt-1] as a sequence
filter_fstack(s) ==
    LET prim == [k \in 1 .. s.max_depth |-> PrimaryItem(s, k - 1)]
    IN  IF s.max_depth + 1 # s.saved_depth THEN prim
        ELSE prim \o [k \in 1 .. (s.saved_max_depth - s.saved_depth + 1) |->
                         StitchedItem(s, s.saved_depth - 2 + k)]

NoOut == [reported |-> FALSE, fstack |-> <<>>]

\* op is the last rule parsed: "x", "X" or "none"
NoHist == [allow |-> {}, deny |-> {}, rules |-> 0, op |-> "none"]

(***************************************************************************)
(* Reconstruction (src/src/retsnoop.c): filter_kstack and the merge loop   *)
(* of handle_event.  A symbol name is the pair of a base and the           *)
(* characters that follow it; a raw frame is the symbol ksyms__map_addr    *)
(* found for its address, or NoSym, and the offset of the address in it.   *)
(***************************************************************************)
FTRACE_OFFSET == 5

\* frames of a raw stack
MaxKstack == 4

\* frames of the logical sequence merged with it
MaxLogical == 2

NoSym == [base |-> "", tail |-> <<>>]

SymA == [base |-> "A", tail |-> <<>>]

SymB == [base |-> "B", tail |-> <<>>]

\* bpf_trampoline_64
SymTramp == [base |-> "bpf_trampoline_", tail |-> <<"6", "4">>]

\* bpf_prog_a1
SymProg == [base |-> "bpf_prog_", tail |-> <<"a", "1">>]

SymGetStack == [base |-> "bpf_get_stack_raw_tp", tail |-> <<>>]

Digits == {"0", "1", "2", "3", "4", "5", "6", "7", "8", "9"}

XDigits == Digits \cup {"a", "b", "c", "d", "e", "f", "A", "B", "C", "D", "E", "F"}

\* name[sizeof(pfx)] for a name that starts with pfx: the second character
\* after the prefix, "" when the name ends before it
CharAfter(name) == IF Len(name.tail) >= 2 THEN name.tail[2] ELSE ""

is_bpf_tramp(item) ==
    /\ item.ksym # NoSym
    /\ item.ksym.base = "bpf_trampoline_"
    /\ CharAfter(item.ksym) \in Digits

is_bpf_prog(item) ==
    /\ item.ksym # NoSym
    /\ item.ksym.base = "bpf_prog_"
    /\ CharAfter(item.ksym) \in XDigits

\* the frames a raw stack is made of
RawFrames ==
    { [ksym |-> SymA, off |-> FTRACE_OFFSET],
      [ksym |-> SymA, off |-> 63],
      [ksym |-> SymB, off |-> 63],
      [ksym |-> SymTramp, off |-> 109],
      [ksym |-> SymProg, off |-> 63],
      [ksym |-> SymGetStack, off |-> 63],
      [ksym |-> NoSym, off |-> 0] }

\* the first loop keeping the captured order
ReverseKstack_asis(ks) ==
    [i \in 0 .. (Len(ks) - 1) |->
        [ksym |-> ks[i + 1].ksym, off |-> ks[i + 1].off, filtered |-> FALSE]]

\* the first loop of filter_kstack, lines 930-939: r[n - i - 1] is kstack[i]
ReverseKstack(ks) ==
    [i \in 0 .. (Len(ks) - 1) |->
        [ksym |-> ks[Len(ks) - i].ksym, off |-> ks[Len(ks) - i].off, filtered |-> FALSE]]

\* the second loop without the fexit pattern of lines 971-983
RECURSIVE KstackPass_nopattern(_, _, _, _, _)
KstackPass_nopattern(r, n, i, p, full) ==
    IF i >= n THEN [r |-> r, p |-> p]
    ELSE LET r1 == [r EXCEPT ![p] = r[i]]
         IN  IF r1[p].ksym = NoSym
             THEN KstackPass_nopattern(r1, n, i + 1, p + 1, full)
             ELSE IF \/ is_bpf_tramp(r1[i]) \/ is_bpf_prog(r1[i])
                     \/ r1[i].ksym = SymGetStack
             THEN IF full
                  THEN KstackPass_nopattern([r1 EXCEPT ![p].filtered = TRUE], n, i + 1, p + 1, full)
                  ELSE KstackPass_nopattern(IF i + 1 < n THEN [r1 EXCEPT ![p] = r1[i + 1]] ELSE r1,
                                            n, i + 1, p, full)
             ELSE KstackPass_nopattern(r1, n, i + 1, p + 1, full)

\* the second loop marking only the trampoline of the fexit pattern in
\* full-stacks mode
RECURSIVE KstackPass_keepentry(_, _, _, _, _)
KstackPass_keepentry(r, n, i, p, full) ==
    IF i >= n THEN [r |-> r, p |-> p]
    ELSE LET r1 == [r EXCEPT ![p] = r[i]]
         IN  IF r1[p].ksym = NoSym
             THEN KstackPass_keepentry(r1, n, i + 1, p + 1, full)
             ELSE IF /\ i + 2 < n
                     /\ is_bpf_tramp(r1[i + 1])
                     /\ r1[i].ksym = r1[i + 2].ksym
                     /\ r1[i].off = FTRACE_OFFSET
             THEN IF full
                  THEN KstackPass_keepentry(r1, n, i + 1, p + 1, full)
                  ELSE KstackPass_keepentry([r1 EXCEPT ![p] = r1[i + 2]], n, i + 1, p, full)
             ELSE IF \/ is_bpf_tramp(r1[i]) \/ is_bpf_prog(r1[i])
                     \/ r1[i].ksym = SymGetStack
             THEN IF full
                  THEN KstackPass_keepentry([r1 EXCEPT ![p].filtered = TRUE], n, i + 1, p + 1, full)
                  ELSE KstackPass_keepentry(IF i + 1 < n THEN [r1 EXCEPT ![p] = r1[i + 1]] ELSE r1,
                                            n, i + 1, p, full)
             ELSE KstackPass_keepentry(r1, n, i + 1, p + 1, full)

\* the second loop of filter_kstack, lines 944-1006, from index i with p
\* items kept so far; r is the array it compacts in place, full is
\* env.emit_full_stacks
RECURSIVE KstackPass(_, _, _, _, _)
KstackPass(r, n, i, p, full) ==
    IF i >= n THEN [r |-> r, p |-> p]
    ELSE LET r1 == [r EXCEPT ![p] = r[i]]
         IN  IF r1[p].ksym = NoSym
             THEN KstackPass(r1, n, i + 1, p + 1, full)
             ELSE IF /\ i + 2 < n
                     /\ is_bpf_tramp(r1[i + 1])
                     /\ r1[i].ksym = r1[i + 2].ksym
                     /\ r1[i].off = FTRACE_OFFSET
             THEN IF full
                  THEN KstackPass([r1 EXCEPT ![p].filtered = TRUE], n, i + 1, p + 1, full)
                  ELSE KstackPass([r1 EXCEPT ![p] = r1[i + 2]], n, i + 1, p, full)
             ELSE IF \/ is_bpf_tramp(r1[i]) \/ is_bpf_prog(r1[i])
                     \/ r1[i].ksym = SymGetStack
             THEN IF full
                  THEN KstackPass([r1 EXCEPT ![p].filtered = TRUE], n, i + 1, p + 1, full)
                  ELSE KstackPass(IF i + 1 < n THEN [r1 EXCEPT ![p] = r1[i + 1]] ELSE r1,
                                  n, i + 1, p, full)
             ELSE KstackPass(r1, n, i + 1, p + 1, full)

\* filter_kstack: the items r[0 .. p-1] as a sequence; ks is the captured
\* stack, innermost call first
filter_kstack(ks, full) ==
    LET res == KstackPass(ReverseKstack(ks), Len(ks), 0, 0, full)
    IN  [k \in 1 .. res.p |-> res.r[k - 1]]

NoItem == [ksym |-> NoSym, off |-> 0, filtered |-> FALSE]

\* print_item(fitem, kitem): has_f and has_k say which of the two is not NULL
Line(has_f, fname, has_k, kitem) ==
    [has_f |-> has_f, fname |-> IF has_f THEN fname ELSE NoSym,
     has_k |-> has_k, kitem |-> IF has_k THEN kitem ELSE NoItem]

\* the merge loop advancing only i after a combined line
RECURSIVE MergeLines_stay(_, _, _, _)
MergeLines_stay(fs, ks, i, j) ==
    IF i > Len(fs)
    THEN [k \in 1 .. (Len(ks) - j + 1) |-> Line(FALSE, NoSym, TRUE, ks[j + k - 1])]
    ELSE IF j > Len(ks)
    THEN <<Line(TRUE, fs[i], FALSE, NoItem)>> \o MergeLines_stay(fs, ks, i + 1, j)
    ELSE IF ks[j].ksym = NoSym \/ ks[j].filtered \/ ks[j].ksym # fs[i]
    THEN <<Line(FALSE, NoSym, TRUE, ks[j])>> \o MergeLines_stay(fs, ks, i, j + 1)
    ELSE <<Line(TRUE, fs[i], TRUE, ks[j])>> \o MergeLines_stay(fs, ks, i + 1, j)

\* the merge loop giving up on a logical frame at the first raw frame that
\* does not match it
RECURSIVE MergeLines_giveup(_, _, _, _)
MergeLines_giveup(fs, ks, i, j) ==
    IF i > Len(fs)
    THEN [k \in 1 .. (Len(ks) - j + 1) |-> Line(FALSE, NoSym, TRUE, ks[j + k - 1])]
    ELSE IF j > Len(ks)
    THEN <<Line(TRUE, fs[i], FALSE, NoItem)>> \o MergeLines_giveup(fs, ks, i + 1, j)
    ELSE IF ks[j].ksym = NoSym \/ ks[j].filtered \/ ks[j].ksym # fs[i]
    THEN <<Line(TRUE, fs[i], FALSE, NoItem)>> \o MergeLines_giveup(fs, ks, i + 1, j)
    ELSE <<Line(TRUE, fs[i], TRUE, ks[j])>> \o MergeLines_giveup(fs, ks, i + 1, j + 1)

\* the merge loop without the flush of the raw frames that are left
RECURSIVE MergeLines_noflush(_, _, _, _)
MergeLines_noflush(fs, ks, i, j) ==
    IF i > Len(fs)
    THEN <<>>
    ELSE IF j > Len(ks)
    THEN <<Line(TRUE, fs[i], FALSE, NoItem)>> \o MergeLines_noflush(fs, ks, i + 1, j)
    ELSE IF ks[j].ksym = NoSym \/ ks[j].filtered \/ ks[j].ksym # fs[i]
    THEN <<Line(FALSE, NoSym, TRUE, ks[j])>> \o MergeLines_noflush(fs, ks, i, j + 1)
    ELSE <<Line(TRUE, fs[i], TRUE, ks[j])>> \o MergeLines_noflush(fs, ks, i + 1, j + 1)

\* the merge loop of handle_event, lines 1215-1250, from cursors i and j
\* (counted from 1): the lines it prints, in order
RECURSIVE MergeLines(_, _, _, _)
MergeLines(fs, ks, i, j) ==
    IF i > Len(fs)
    THEN [k \in 1 .. (Len(ks) - j + 1) |-> Line(FALSE, NoSym, TRUE, ks[j + k - 1])]
    ELSE IF j > Len(ks)
    THEN <<Line(TRUE, fs[i], FALSE, NoItem)>> \o MergeLines(fs, ks, i + 1, j)
    ELSE IF ks[j].ksym = NoSym \/ ks[j].filtered \/ ks[j].ksym # fs[i]
    THEN <<Line(FALSE, NoSym, TRUE, ks[j])>> \o MergeLines(fs, ks, i, j + 1)
    ELSE <<Line(TRUE, fs[i], TRUE, ks[j])>> \o MergeLines(fs, ks, i + 1, j + 1)

NoRecIn == [kstack |-> <<>>, fnames |-> <<>>, emit_full_stacks |-> FALSE]

NoRecOut == [kstack |-> <<>>, lines |-> <<>>]

(***************************************************************************)
(* Several cores (src/src/retsnoop.bpf.c): push_call_stack and             *)
(* pop_call_stack work on stacks[cpu & MAX_CPU_MASK], where cpu is the id   *)
(* of the core the probe runs on.  MAX_CPU_CNT and MAX_CPU_MASK come from   *)
(* retsnoop.h; the mask is taken to be MAX_CPU_CNT - 1, so that the index   *)
(* is the core id modulo the number of slots.  The loader does not compare  *)
(* the number of cores of the machine with MAX_CPU_CNT.                     *)
(***************************************************************************)
\* number of slots of stacks[] (scaled down)
MAX_CPU_CNT == 2

\* number of cores of the machine
NumCores == 3

\* number of probes fired on all cores together
MaxCoreSteps == 4

Cores == 0 .. (NumCores - 1)

CpuSlots == 0 .. (MAX_CPU_CNT - 1)

\* cpu & MAX_CPU_MASK, lines 68 and 103
CpuSlot(cpu) == cpu % MAX_CPU_CNT

\* the cores that share their slot with no other core of the machine
UnaliasedCores ==
    {c \in Cores : \A c2 \in Cores \ {c} : CpuSlot(c2) # CpuSlot(c)}

\* the values of the cores' variables while another specification runs
CoresOff ==
    /\ cor_stacks = <<>>
    /\ cor_alone = <<>>
    /\ cor_out = <<>>
    /\ cor_alone_out = <<>>
    /\ cor_n = 0
    /\ cor_pc = "off"

(***************************************************************************)
(* handle_event on a record whose header fields need not be those of a      *)
(* record the automaton emits (src/src/retsnoop.c).  Only the fields that   *)
(* decide how far filter_fstack and filter_kstack read and write are kept.  *)
(***************************************************************************)
\* capacity of kstack[] in struct call_stack and in handle_event (scaled down)
MAX_KSTACK_DEPTH == 3

\* the header fields of the records given to handle_event
DecodedRecords ==
    [is_err : BOOLEAN,
     depth : {0},
     max_depth : 0 .. (MAX_FSTACK_DEPTH + 1),
     saved_depth : 0 .. (MAX_FSTACK_DEPTH + 1),
     saved_max_depth : 0 .. (MAX_FSTACK_DEPTH + 1),
     kstack_n : 0 .. (MAX_KSTACK_DEPTH + 1),
     emit_success_stacks : BOOLEAN]

\* the number of items of the second loop of filter_fstack, lines 869-888
StitchedCount(e) ==
    IF e.max_depth + 1 # e.saved_depth THEN 0
    ELSE IF e.saved_max_depth > e.saved_depth - 1
         THEN e.saved_max_depth - (e.saved_depth - 1)
         ELSE 0

\* cnt as filter_fstack returns it, lines 844-890: no index is checked
FstackCount(e) == e.max_depth + StitchedCount(e)

\* filter_fstack reads func_ids[i] or saved_ids[i] with i >= MAX_FSTACK_DEPTH
\* or writes r[cnt] with cnt >= MAX_FSTACK_DEPTH
FstackOverrun(e) ==
    \/ e.max_depth > MAX_FSTACK_DEPTH
    \/ StitchedCount(e) > 0 /\ e.saved_max_depth > MAX_FSTACK_DEPTH
    \/ FstackCount(e) > MAX_FSTACK_DEPTH

\* filter_kstack reads s->kstack[i] and writes r[n - i - 1] for
\* i < n = kstack_sz / 8 without comparing n with MAX_KSTACK_DEPTH, 930-939
KstackOverrun(e) == e.kstack_n > MAX_KSTACK_DEPTH

\* handle_event, lines 1174-1206, with no error filter given.  "skipped" is
\* the silent return of line 1186, "dropped" the return -1 after the message
\* of lines 1199 or 1204, "reported" the run through the merge; a read or
\* write outside the arrays is undefined behaviour, which either goes
\* unnoticed ("reported", with whatever was read) or ends the process.
handle_event_decoded(e) ==
    IF ~e.is_err /\ ~e.emit_success_stacks
    THEN {[verdict |-> "skipped", diag |-> FALSE, fstack_n |-> 0, kstack_n |-> 0]}
    ELSE LET fstack_n == FstackCount(e)
             kstack_n == e.kstack_n
         IN  IF fstack_n < 0 \/ kstack_n < 0
             THEN {[verdict |-> "dropped", diag |-> TRUE,
                    fstack_n |-> fstack_n, kstack_n |-> kstack_n]}
             ELSE {[verdict |-> v, diag |-> FALSE,
                    fstack_n |-> fstack_n, kstack_n |-> kstack_n] :
                   v \in IF FstackOverrun(e) \/ KstackOverrun(e)
                         THEN {"reported", "crashed"}
                         ELSE {"reported"}}

NoDecIn ==
    [is_err |-> FALSE, depth |-> 0, max_depth |-> 0, saved_depth |-> 0,
     saved_max_depth |-> 0, kstack_n |-> 0, emit_success_stacks |-> FALSE]

NoDecOut == [verdict |-> "none", diag |-> FALSE, fstack_n |-> 0, kstack_n |-> 0]

\* the values of the decoding variables while another specification runs
DecodeOff ==
    /\ d_in = NoDecIn
    /\ d_out = NoDecOut
    /\ d_pc = "off"

(***************************************************************************)
(* History of the invocation being followed.  An invocation starts when a  *)
(* function flagged IS_ENTRY is entered while the automaton is at depth 0  *)
(* and no invocation is being followed; it is followed as long as every    *)
(* exit matches the most recent open entry and the nesting stays within    *)
(* MAX_FSTACK_DEPTH.  It is read off the probes' event stream, never off   *)
(* the automaton's arrays.                                                 *)
(***************************************************************************)
NoInv == [start |-> 0, emits0 |-> 0, chain |-> <<>>, stitched |-> <<>>]

Following == ok /\ nest # <<>>

TopCall == nest[Len(nest)]

\* the caller of an entry made now, 0 when it is not known
CallerLabel == IF Following THEN TopCall.call ELSE 0

\* the label of the call an exit of function id returns from, 0 when not known
ReturningLabel(id) == IF Following /\ TopCall.id = id THEN TopCall.call ELSE 0

Init ==
    /\ stack = ZeroStack
    /\ now = 0
    /\ emits = 0
    /\ last_event = ZeroStack
    /\ last = [op |-> "init", id |-> 0, ret |-> U64Zero, failed |-> FALSE,
               accepted |-> FALSE, emitted |-> FALSE, delivered |-> FALSE,
               pre |-> ZeroStack]
    /\ calls = 0
    /\ nest = <<>>
    /\ ok = FALSE
    /\ inv = NoInv
    /\ c_in = [t |-> BtfInt32, entry |-> FALSE, ret |-> U64Zero]
    /\ c_out = [flags |-> {}, failed |-> FALSE]
    /\ c_pc = "off"
    /\ env = EnvInit
    /\ f_hist = NoHist
    /\ f_ev = ZeroStack
    /\ f_out = NoOut
    /\ f_pc = "off"
    /\ k_in = NoRecIn
    /\ k_out = NoRecOut
    /\ k_pc = "off"
    /\ CoresOff
    /\ DecodeOff

\* handle_func_entry(ctx, cpu, func_id, func_ip)
HandleFuncEntry ==
    /\ calls < MaxCalls
    /\ \E id \in FuncIds :
         LET idv == [id |-> id, call |-> calls + 1, parent |-> CallerLabel]
             r == push_call_stack(stack, idv, now)
             starts == ~Following /\ "IS_ENTRY" \in func_flags_bss[id] /\ stack.depth = 0
             deeper == Following /\ Len(nest) < MAX_FSTACK_DEPTH
             tooDeep == Following /\ Len(nest) >= MAX_FSTACK_DEPTH
             open == [id |-> id, call |-> calls + 1, t0 |-> now]
         IN  /\ stack' = r.st
             /\ now' = IF r.ret THEN now + 1 ELSE now
             /\ calls' = IF r.ret \/ starts \/ deeper THEN calls + 1 ELSE calls
             /\ last' = [op |-> "enter", id |-> id, ret |-> U64Zero, failed |-> FALSE,
                         accepted |-> r.ret, emitted |-> FALSE, delivered |-> FALSE,
                         pre |-> stack]
             /\ nest' = IF starts THEN <<open>>
                        ELSE IF deeper THEN Append(nest, open)
                        ELSE IF tooDeep THEN <<>>
                        ELSE nest
             /\ ok' = IF starts \/ deeper THEN TRUE
                      ELSE IF tooDeep THEN FALSE
                      ELSE ok
             /\ inv' = IF starts
                       THEN [start |-> calls + 1, emits0 |-> emits,
                             chain |-> <<>>, stitched |-> <<>>]
                       ELSE IF deeper
                       THEN [inv EXCEPT !.chain = <<>>,
                                        !.stitched = IF inv.chain # <<>> THEN inv.chain
                                                     ELSE inv.stitched]
                       ELSE inv
             /\ UNCHANGED <<emits, last_event>>
    /\ UNCHANGED <<clsVars, fltVars, recVars, corVars, decVars>>

\* handle_func_exit's call of pop_call_stack when bpf_get_stack returns ksz
ExitResult(id, ret, ksz) ==
    pop_call_stack(stack, id, [v |-> ret, call |-> ReturningLabel(id)],
                   FuncExitFailed(func_flags_bss[id], ret), now,
                   [sz |-> ksz, call |-> ReturningLabel(id)])

\* bpf_ringbuf_output stores the record (TRUE) or drops it (FALSE); only
\* FALSE when the helper is not called
RingbufOutcomes(id, ret) ==
    IF \E k \in KstackRets : ExitResult(id, ret, k).emit THEN BOOLEAN ELSE {FALSE}

\* handle_func_exit(ctx, cpu, func_id, func_ip, ret)
HandleFuncExit ==
    /\ \E id \in FuncIds, ret \in RawResults :
       \E ksz \in KstackRets :
       \E dlv \in RingbufOutcomes(id, ret) :
         LET failed == FuncExitFailed(func_flags_bss[id], ret)
             lbl == ReturningLabel(id)
             r == ExitResult(id, ret, ksz)
             matched == Following /\ TopCall.id = id
             unmatched == Following /\ TopCall.id # id
             frame == [id |-> id, res |-> ret, lat |-> now - TopCall.t0,
                       call |-> TopCall.call]
         IN  /\ stack' = r.st
             /\ now' = IF r.ret THEN now + 1 ELSE now
             /\ emits' = IF r.emit THEN emits + 1 ELSE emits
             /\ last_event' = IF r.emit THEN r.ev ELSE last_event
             /\ last' = [op |-> "exit", id |-> id, ret |-> ret, failed |-> failed,
                         accepted |-> r.ret, emitted |-> r.emit,
                         delivered |-> (r.emit /\ dlv), pre |-> stack]
             /\ nest' = IF matched THEN SubSeq(nest, 1, Len(nest) - 1)
                        ELSE IF unmatched THEN <<>>
                        ELSE nest
             /\ ok' = IF unmatched THEN FALSE ELSE ok
             /\ inv' = IF matched
                       THEN [inv EXCEPT !.chain = IF inv.chain # <<>> THEN <<frame>> \o inv.chain
                                                  ELSE IF failed THEN <<frame>>
                                                  ELSE <<>>]
                       ELSE inv
             /\ UNCHANGED calls
    /\ UNCHANGED <<clsVars, fltVars, recVars, corVars, decVars>>

Next == HandleFuncEntry \/ HandleFuncExit

Spec == Init /\ [][Next]_vars

(***************************************************************************)
(* Classification runs: a registry entry is built from a BTF return type   *)
(* by func_flags and main, and one raw result is classified by             *)
(* handle_func_exit.                                                       *)
(***************************************************************************)
\* limbs around the boundaries of the comparisons
HighLimbs == {0, 1, LimbTop}

MidLimbs == {0, 2^15 - 1, 2^15, LimbTop - 1, LimbTop}

LowLimbs == {0, 1, LimbTop - MAX_ERRNO, (LimbTop + 1) - MAX_ERRNO, LimbTop - 1, LimbTop}

ClsResults ==
    {<<a, b, c, d>> : a \in HighLimbs, b \in HighLimbs, c \in MidLimbs, d \in LowLimbs}

ClsInit ==
    /\ stack = ZeroStack
    /\ now = 0
    /\ emits = 0
    /\ last_event = ZeroStack
    /\ last = [op |-> "init", id |-> 0, ret |-> U64Zero, failed |-> FALSE,
               accepted |-> FALSE, emitted |-> FALSE, delivered |-> FALSE,
               pre |-> ZeroStack]
    /\ calls = 0
    /\ nest = <<>>
    /\ ok = FALSE
    /\ inv = NoInv
    /\ c_in \in [t : BtfTypes, entry : BOOLEAN, ret : ClsResults]
    /\ c_out = [flags |-> {}, failed |-> FALSE]
    /\ c_pc = "in"
    /\ env = EnvInit
    /\ f_hist = NoHist
    /\ f_ev = ZeroStack
    /\ f_out = NoOut
    /\ f_pc = "off"
    /\ k_in = NoRecIn
    /\ k_out = NoRecOut
    /\ k_pc = "off"
    /\ CoresOff
    /\ DecodeOff

Classify ==
    /\ c_pc = "in"
    /\ LET flags == RegistryFlags(c_in.t, c_in.entry)
       IN  c_out' = [flags |-> flags, failed |-> FuncExitFailed(flags, c_in.ret)]
    /\ c_pc' = "out"
    /\ UNCHANGED c_in
    /\ UNCHANGED <<autoVars, fltVars, recVars, corVars, decVars>>

ClsNext == Classify

SpecClassify == ClsInit /\ [][ClsNext]_vars

(***************************************************************************)
(* The consumer's filter run: main parses the -x, -X and -S arguments,     *)
(* then handle_event receives one record.  The record is any snapshot the  *)
(* automaton hands to bpf_ringbuf_output within TraceSteps probes.         *)
(***************************************************************************)
\* probes of the traced run that produces the record
TraceSteps == 6

\* (u32)-n, zero-extended to 64 bits
Neg32(n) == <<0, 0, LimbTop, (LimbTop + 1) - n>>

\* (u64)-n
Neg64(n) == <<LimbTop, LimbTop, LimbTop, (LimbTop + 1) - n>>

\* what the traced functions return: the int function 0, -ENOENT, -EACCES or
\* the count 2; the pointer function NULL, ERR_PTR(-ENOENT) or an address
TraceResults ==
    [id \in FuncIds |->
        IF id = 0 THEN {U64Zero, Neg32(2), Neg32(13), <<0, 0, 0, 2>>}
        ELSE {U64Zero, Neg64(2), <<LimbTop, 2^15, 1, 0>>}]

TraceExits == UNION { {<<id, ret>> : ret \in TraceResults[id]} : id \in FuncIds }

\* handle_func_entry and handle_func_exit on a given state, the clock held
TraceEnter(s, id) == push_call_stack(s, [id |-> id, call |-> 0, parent |-> 0], 0)

TraceExit(s, id, ret) ==
    pop_call_stack(s, id, [v |-> ret, call |-> 0],
                   FuncExitFailed(func_flags_bss[id], ret), 0, [sz |-> 16, call |-> 0])

\* the states of the automaton after at most k probes
RECURSIVE TraceStacks(_)
TraceStacks(k) ==
    IF k = 0 THEN {ZeroStack}
    ELSE LET R == TraceStacks(k - 1)
         IN  R \cup { TraceEnter(s, id).st : s \in R, id \in FuncIds }
               \cup { TraceExit(s, x[1], x[2]).st : s \in R, x \in TraceExits }

\* the snapshots emitted by the last of at most TraceSteps probes
TraceEvents ==
    LET R == TraceStacks(TraceSteps - 1)
        outs == { TraceExit(s, x[1], x[2]) : s \in R, x \in TraceExits }
    IN  { r.ev : r \in { o \in outs : o.emit } }

FltInit ==
    /\ stack = ZeroStack
    /\ now = 0
    /\ emits = 0
    /\ last_event = ZeroStack
    /\ last = [op |-> "init", id |-> 0, ret |-> U64Zero, failed |-> FALSE,
               accepted |-> FALSE, emitted |-> FALSE, delivered |-> FALSE,
               pre |-> ZeroStack]
    /\ calls = 0
    /\ nest = <<>>
    /\ ok = FALSE
    /\ inv = NoInv
    /\ c_in = [t |-> BtfInt32, entry |-> FALSE, ret |-> U64Zero]
    /\ c_out = [flags |-> {}, failed |-> FALSE]
    /\ c_pc = "off"
    /\ env = EnvInit
    /\ f_hist = NoHist
    /\ f_ev \in TraceEvents
    /\ f_out = NoOut
    /\ f_pc = "args"
    /\ k_in = NoRecIn
    /\ k_out = NoRecOut
    /\ k_pc = "off"
    /\ CoresOff
    /\ DecodeOff

\* parse_arg, case 'x'
ParseArgAllow ==
    /\ f_pc = "args"
    /\ f_hist.rules < MaxRules
    /\ \E arg \in RuleArgs :
         LET err == str_to_err(arg)
         IN  IF err < 0
             THEN f_pc' = "failed" /\ UNCHANGED <<env, f_hist>>
             ELSE /\ env' = parse_allow(env, err)
                  /\ f_hist' = [f_hist EXCEPT !.allow = @ \cup {err}, !.rules = @ + 1,
                                             !.op = "x"]
                  /\ f_pc' = "args"
    /\ UNCHANGED <<f_ev, f_out>>
    /\ UNCHANGED <<autoVars, clsVars, recVars, corVars, decVars>>

\* parse_arg, case 'X'
ParseArgDeny ==
    /\ f_pc = "args"
    /\ f_hist.rules < MaxRules
    /\ \E arg \in RuleArgs :
         LET err == str_to_err(arg)
         IN  IF err < 0
             THEN f_pc' = "failed" /\ UNCHANGED <<env, f_hist>>
             ELSE /\ env' = parse_deny(env, err)
                  /\ f_hist' = [f_hist EXCEPT !.deny = @ \cup {err}, !.rules = @ + 1,
                                             !.op = "X"]
                  /\ f_pc' = "args"
    /\ UNCHANGED <<f_ev, f_out>>
    /\ UNCHANGED <<autoVars, clsVars, recVars, corVars, decVars>>

\* parse_arg, case 'S'
ParseArgSuccess ==
    /\ f_pc = "args"
    /\ env' = [env EXCEPT !.emit_success_stacks = TRUE]
    /\ UNCHANGED <<f_hist, f_ev, f_out, f_pc>>
    /\ UNCHANGED <<autoVars, clsVars, recVars, corVars, decVars>>

\* handle_event applying the error filter to success records too
HandleEvent_filter_success ==
    /\ f_pc = "args"
    /\ LET skip == \/ ~f_ev.is_err /\ ~env.emit_success_stacks
                   \/ env.has_error_filter /\ ~should_report_stack(env, f_ev)
       IN  f_out' = IF skip THEN NoOut
                    ELSE [reported |-> TRUE, fstack |-> filter_fstack(f_ev)]
    /\ f_pc' = "done"
    /\ UNCHANGED <<env, f_hist, f_ev>>
    /\ UNCHANGED <<autoVars, clsVars, recVars, corVars, decVars>>

\* handle_event up to the call of filter_fstack, lines 1185-1197
HandleEvent ==
    /\ f_pc = "args"
    /\ LET skip == \/ ~f_ev.is_err /\ ~env.emit_success_stacks
                   \/ f_ev.is_err /\ env.has_error_filter /\ ~should_report_stack(env, f_ev)
       IN  f_out' = IF skip THEN NoOut
                    ELSE [reported |-> TRUE, fstack |-> filter_fstack(f_ev)]
    /\ f_pc' = "done"
    /\ UNCHANGED <<env, f_hist, f_ev>>
    /\ UNCHANGED <<autoVars, clsVars, recVars, corVars, decVars>>

FltNext == ParseArgAllow \/ ParseArgDeny \/ ParseArgSuccess \/ HandleEvent

SpecFilter == FltInit /\ [][FltNext]_vars

(***************************************************************************)
(* The reconstruction run: handle_event extracts the raw stack of one      *)
(* record and merges it with the names of its logical frames.              *)
(***************************************************************************)
\* the sequences over S of length at most n
SeqsUpTo(S, n) == UNION { [1 .. m -> S] : m \in 0 .. n }

RecInit ==
    /\ stack = ZeroStack
    /\ now = 0
    /\ emits = 0
    /\ last_event = ZeroStack
    /\ last = [op |-> "init", id |-> 0, ret |-> U64Zero, failed |-> FALSE,
               accepted |-> FALSE, emitted |-> FALSE, delivered |-> FALSE,
               pre |-> ZeroStack]
    /\ calls = 0
    /\ nest = <<>>
    /\ ok = FALSE
    /\ inv = NoInv
    /\ c_in = [t |-> BtfInt32, entry |-> FALSE, ret |-> U64Zero]
    /\ c_out = [flags |-> {}, failed |-> FALSE]
    /\ c_pc = "off"
    /\ env = EnvInit
    /\ f_hist = NoHist
    /\ f_ev = ZeroStack
    /\ f_out = NoOut
    /\ f_pc = "off"
    /\ k_in \in [kstack : SeqsUpTo(RawFrames, MaxKstack),
                 fnames : SeqsUpTo({SymA, SymB}, MaxLogical),
                 emit_full_stacks : BOOLEAN]
    /\ k_out = NoRecOut
    /\ k_pc = "in"
    /\ CoresOff
    /\ DecodeOff

\* handle_event from the call of filter_kstack to the end of the merge,
\* lines 1202-1250
Reconstruct ==
    /\ k_pc = "in"
    /\ LET ks == filter_kstack(k_in.kstack, k_in.emit_full_stacks)
       IN  k_out' = [kstack |-> ks, lines |-> MergeLines(k_in.fnames, ks, 1, 1)]
    /\ k_pc' = "out"
    /\ UNCHANGED k_in
    /\ UNCHANGED <<autoVars, clsVars, fltVars, corVars, decVars>>

RecNext == Reconstruct

SpecReconstruct == RecInit /\ [][RecNext]_vars

(***************************************************************************)
(* Probes on several cores.  Each probe runs to completion on its core;    *)
(* beside stacks[] the model keeps, for each core, an automaton that is    *)
(* given that core's probes and no other.                                  *)
(***************************************************************************)
\* the exits fired on the cores: a success and a failure of each function
CoreExits == {<<0, U64Zero>>, <<0, Neg32(2)>>, <<1, U64Zero>>, <<1, Neg64(2)>>}

CoresInit ==
    /\ stack = ZeroStack
    /\ now = 0
    /\ emits = 0
    /\ last_event = ZeroStack
    /\ last = [op |-> "init", id |-> 0, ret |-> U64Zero, failed |-> FALSE,
               accepted |-> FALSE, emitted |-> FALSE, delivered |-> FALSE,
               pre |-> ZeroStack]
    /\ calls = 0
    /\ nest = <<>>
    /\ ok = FALSE
    /\ inv = NoInv
    /\ c_in = [t |-> BtfInt32, entry |-> FALSE, ret |-> U64Zero]
    /\ c_out = [flags |-> {}, failed |-> FALSE]
    /\ c_pc = "off"
    /\ env = EnvInit
    /\ f_hist = NoHist
    /\ f_ev = ZeroStack
    /\ f_out = NoOut
    /\ f_pc = "off"
    /\ k_in = NoRecIn
    /\ k_out = NoRecOut
    /\ k_pc = "off"
    /\ cor_stacks = [i \in CpuSlots |-> ZeroStack]
    /\ cor_alone = [c \in Cores |-> ZeroStack]
    /\ cor_out = [c \in Cores |-> <<>>]
    /\ cor_alone_out = [c \in Cores |-> <<>>]
    /\ cor_n = 0
    /\ cor_pc = "run"
    /\ DecodeOff

\* handle_func_entry(ctx, cpu, func_id, func_ip) on core cpu
CoreEntry ==
    /\ cor_pc = "run"
    /\ cor_n < MaxCoreSteps
    /\ \E cpu \in Cores, id \in FuncIds :
         LET idv == [id |-> id, call |-> cor_n + 1, parent |-> 0]
         IN  /\ cor_stacks' = [cor_stacks EXCEPT ![CpuSlot(cpu)] =
                                  push_call_stack(@, idv, cor_n).st]
             /\ cor_alone' = [cor_alone EXCEPT ![cpu] =
                                  push_call_stack(@, idv, cor_n).st]
    /\ cor_n' = cor_n + 1
    /\ UNCHANGED <<cor_out, cor_alone_out, cor_pc>>
    /\ UNCHANGED <<autoVars, clsVars, fltVars, recVars, decVars>>

\* handle_func_exit(ctx, cpu, func_id, func_ip, ret) on core cpu
CoreExit ==
    /\ cor_pc = "run"
    /\ cor_n < MaxCoreSteps
    /\ \E cpu \in Cores, x \in CoreExits :
         LET id == x[1]
             ret == x[2]
             pop(s) == pop_call_stack(s, id, [v |-> ret, call |-> cor_n + 1],
                                      FuncExitFailed(func_flags_bss[id], ret), cor_n,
                                      [sz |-> 16, call |-> cor_n + 1])
             r == pop(cor_stacks[CpuSlot(cpu)])
             a == pop(cor_alone[cpu])
         IN  /\ cor_stacks' = [cor_stacks EXCEPT ![CpuSlot(cpu)] = r.st]
             /\ cor_alone' = [cor_alone EXCEPT ![cpu] = a.st]
             /\ cor_out' = IF r.emit
                           THEN [cor_out EXCEPT ![cpu] = Append(@, r.ev)]
                           ELSE cor_out
             /\ cor_alone_out' = IF a.emit
                                 THEN [cor_alone_out EXCEPT ![cpu] = Append(@, a.ev)]
                                 ELSE cor_alone_out
    /\ cor_n' = cor_n + 1
    /\ UNCHANGED cor_pc
    /\ UNCHANGED <<autoVars, clsVars, fltVars, recVars, decVars>>

CoresNext == CoreEntry \/ CoreExit

SpecCores == CoresInit /\ [][CoresNext]_vars

(***************************************************************************)
(* handle_event on one decoded record.                                     *)
(***************************************************************************)
DecodeInit ==
    /\ stack = ZeroStack
    /\ now = 0
    /\ emits = 0
    /\ last_event = ZeroStack
    /\ last = [op |-> "init", id |-> 0, ret |-> U64Zero, failed |-> FALSE,
               accepted |-> FALSE, emitted |-> FALSE, delivered |-> FALSE,
               pre |-> ZeroStack]
    /\ calls = 0
    /\ nest = <<>>
    /\ ok = FALSE
    /\ inv = NoInv
    /\ c_in = [t |-> BtfInt32, entry |-> FALSE, ret |-> U64Zero]
    /\ c_out = [flags |-> {}, failed |-> FALSE]
    /\ c_pc = "off"
    /\ env = EnvInit
    /\ f_hist = NoHist
    /\ f_ev = ZeroStack
    /\ f_out = NoOut
    /\ f_pc = "off"
    /\ k_in = NoRecIn
    /\ k_out = NoRecOut
    /\ k_pc = "off"
    /\ CoresOff
    /\ d_in \in DecodedRecords
    /\ d_out = NoDecOut
    /\ d_pc = "in"

\* handle_event(ctx, data, data_sz), lines 1174-1206
DecodeEvent ==
    /\ d_pc = "in"
    /\ d_out' \in handle_event_decoded(d_in)
    /\ d_pc' = "out"
    /\ UNCHANGED d_in
    /\ UNCHANGED <<autoVars, clsVars, fltVars, recVars, corVars>>

DecodeNext == DecodeEvent

SpecDecode == DecodeInit /\ [][DecodeNext]_vars

(***************************************************************************)
(* Properties.                                                             *)
(***************************************************************************)
\* the followed invocation has just completed: its top-level exit was the
\* last probe
Completed == ok /\ nest = <<>> /\ last.op = "exit" /\ last.accepted

\* the stitched segment of a snapshot, indices saved_depth-1 .. saved_max_depth-1,
\* as a sequence of frames
Segment(ev) ==
    [k \in 1 .. (ev.saved_max_depth - ev.saved_depth + 1) |->
        LET i == ev.saved_depth - 2 + k
        IN  [id |-> ev.saved_ids[i].id, res |-> ev.saved_res[i].v,
             lat |-> ev.saved_lat[i], call |-> ev.saved_ids[i].call]]

\* the contiguity check of the consumer, filter_fstack and should_report_stack
Contiguous(ev) == ev.max_depth + 1 = ev.saved_depth

\* C1: while an invocation that started with an IS_ENTRY function at depth 0
\* stays properly nested within MAX_FSTACK_DEPTH, depth equals the number of
\* open calls and no event has been emitted since it started; when its
\* top-level exit arrives depth is 0 and exactly one event has been emitted.
C1_OneEventPerInvocation ==
    ok => IF nest = <<>>
          THEN stack.depth = 0 /\ emits = inv.emits0 + 1
          ELSE stack.depth = Len(nest) /\ emits = inv.emits0

C1_Witness ==
    /\ Completed
    /\ last.emitted
    /\ calls >= inv.start + 2
    /\ emits = 2

\* C2: an exit at depth > 0 whose function id differs from the id recorded at
\* frames[depth-1] leaves depth 0 and emits no event.
MismatchedExit ==
    /\ last.op = "exit"
    /\ last.pre.depth > 0
    /\ last.pre.func_ids[last.pre.depth - 1].id # last.id

C2_MismatchResetsDepth ==
    MismatchedExit => stack.depth = 0 /\ ~last.emitted /\ ~last.accepted

C2_Witness ==
    /\ MismatchedExit
    /\ last.pre.depth >= 2
    /\ last.pre.is_err
    /\ last.pre.saved_depth > 0
    /\ stack.depth = 0

\* C3: 0 <= depth <= max_depth <= MAX_FSTACK_DEPTH in every reachable state.
C3_DepthInvariant ==
    /\ 0 <= stack.depth
    /\ stack.depth <= stack.max_depth
    /\ stack.max_depth <= MAX_FSTACK_DEPTH

C3_Witness ==
    /\ ~ok
    /\ 0 < stack.depth
    /\ stack.depth < stack.max_depth
    /\ stack.max_depth = MAX_FSTACK_DEPTH

\* C4: when a properly nested invocation completes and a failing chain of
\* calls was followed by an entry of a sibling under the still-open caller,
\* the stitched segment of the emitted event is exactly the last such chain:
\* the ids, results and latencies of those calls, caller first.
C4_StitchedSegment ==
    (Completed /\ last.emitted /\ inv.stitched # <<>>) =>
        Segment(last_event) = inv.stitched

C4_Witness ==
    /\ Completed
    /\ last.emitted
    /\ Len(inv.stitched) >= 2
    /\ Segment(last_event) = inv.stitched
    /\ last_event.max_depth < last_event.saved_max_depth

\* C5: in an error event emitted by a properly nested invocation whose
\* stitched segment was saved during that invocation and passes the
\* contiguity check, the caller saved below the segment is the call in the
\* last primary frame and the first stitched frame was entered beneath it.
C5_ContiguousIsCausal ==
    (/\ Completed
     /\ last.emitted
     /\ last_event.is_err
     /\ Contiguous(last_event)
     /\ last_event.saved_ids[last_event.saved_depth - 1].call >= inv.start) =>
        LET ev == last_event
            caller == ev.func_ids[ev.max_depth - 1].call
        IN  /\ ev.saved_ids[ev.saved_depth - 2].call = caller
            /\ ev.saved_ids[ev.saved_depth - 1].parent = caller

\* C6: every frame an emitted event carries (primary frames below max_depth,
\* the stitched segment when there is one, the raw stack when there is one)
\* was recorded by a call of the invocation the event reports.
C6_EventSelfContained ==
    (Completed /\ last.emitted) =>
        LET ev == last_event
        IN  /\ \A i \in Slots : i < ev.max_depth =>
                  /\ ev.func_ids[i].call >= inv.start
                  /\ ev.func_res[i].call = ev.func_ids[i].call
            /\ \A i \in Slots : (ev.saved_depth # 0 /\ ev.saved_depth - 1 <= i
                                 /\ i < ev.saved_max_depth) =>
                  /\ ev.saved_ids[i].call >= inv.start
                  /\ ev.saved_res[i].call >= inv.start
            /\ ev.kstack_sz > 0 => ev.kstack >= inv.start

\* C7: right after a mismatched exit depth, max_depth, has_error, the raw
\* stack length and the stitched segment are all zero, as in the initial
\* state.
C7_MismatchResetsAll ==
    MismatchedExit =>
        /\ stack.depth = 0
        /\ stack.max_depth = 0
        /\ ~stack.is_err
        /\ stack.kstack_sz = 0
        /\ stack.saved_depth = 0
        /\ stack.saved_max_depth = 0

\* the low 32 bits of x lie in [0xfffff001, 0xffffffff]
Low32IsErrno(x) == x[3] = LimbTop /\ x[4] >= (LimbTop + 1) - MAX_ERRNO

\* the full-width value lies in [-4095, -1]
Full64IsErrno(x) ==
    x[1] = LimbTop /\ x[2] = LimbTop /\ x[3] = LimbTop /\ x[4] >= (LimbTop + 1) - MAX_ERRNO

\* C8: for a function flagged NEEDS_SIGN_EXT the exit is classified failed
\* iff the low 32 bits of the raw result lie in [0xfffff001, 0xffffffff],
\* whatever the upper 32 bits are.
C8_SignExtLooksAtLow32 ==
    (c_pc = "out" /\ "NEEDS_SIGN_EXT" \in c_out.flags) =>
        (c_out.failed <=> Low32IsErrno(c_in.ret))

\* C9: a function flagged CANT_FAIL, RET_VOID or RET_BOOL is never
\* classified failed, for any raw result.
C9_NeverFails ==
    (c_pc = "out" /\ c_out.flags \cap {"CANT_FAIL", "RET_VOID", "RET_BOOL"} # {}) =>
        ~c_out.failed

C9_Witness ==
    /\ c_pc = "out"
    /\ "RET_VOID" \in c_out.flags
    /\ Full64IsErrno(c_in.ret)
    /\ ~c_out.failed

\* C10: for a function that is neither CANT_FAIL nor NEEDS_SIGN_EXT the exit
\* is classified failed iff the full-width value lies in [-4095, -1], or the
\* function is RET_PTR and the value is 0.
C10_FullWidthRule ==
    (c_pc = "out" /\ c_out.flags \cap {"CANT_FAIL", "NEEDS_SIGN_EXT"} = {}) =>
        (c_out.failed <=>
            (Full64IsErrno(c_in.ret) \/ ("RET_PTR" \in c_out.flags /\ c_in.ret = U64Zero)))

C10_Witness ==
    /\ c_pc = "out"
    /\ c_out.flags = {}
    /\ c_in.ret = NegMaxErrno64
    /\ c_out.failed


\* C13: after any sequence of -x and -X rules the allow mask holds every
\* errno if no -x rule was given and exactly the errnos named by the -x rules
\* otherwise, the deny mask holds exactly the errnos named by the -X rules,
\* a -X rule leaves the allow mask as it was and a -x rule leaves the deny
\* mask as it was.
C13_MasksAreNamedSets ==
    /\ [](f_pc # "off" =>
            /\ env.allow_error_mask = IF f_hist.allow = {} THEN AllErrs ELSE f_hist.allow
            /\ env.deny_error_mask = f_hist.deny)
    /\ [][f_hist'.rules = f_hist.rules + 1 =>
            /\ f_hist'.op = "X" => env'.allow_error_mask = env.allow_error_mask
            /\ f_hist'.op = "x" => env'.deny_error_mask = env.deny_error_mask]_vars

\* two -x rules naming different errnos and a -X rule have been parsed
C13_Witness ==
    /\ f_hist.allow = {2, 13}
    /\ f_hist.deny # {}
    /\ env.allow_error_mask = {2, 13}
    /\ env.allow_error_cnt = 2

\* the record with every primary result slot at index >= max_depth replaced
\* by the saved result at the same index
OwnResults(ev) ==
    [ev EXCEPT !.func_res = [i \in Slots |-> IF i < ev.max_depth THEN ev.func_res[i]
                                             ELSE ev.saved_res[i]]]

\* C14: for an error record with a contiguous stitched segment the filter
\* decision is the one obtained when each stitched frame is evaluated with
\* the saved result at its own index; the primary result slots at index
\* >= max_depth have no influence on it.
C14_StitchedOwnResult ==
    (f_pc = "done" /\ f_ev.is_err /\ Contiguous(f_ev)) =>
        (f_out.reported <=> should_report_stack(env, OwnResults(f_ev)))

\* the frames of a record: the primary frames 0 .. max_depth-1 and, when the
\* segment is contiguous, the stitched frames, each with its own result
RecordFrames(ev) ==
    { [id |-> ev.func_ids[i].id, res |-> ev.func_res[i].v] :
          i \in {j \in Slots : j < ev.max_depth} }
    \cup IF Contiguous(ev)
         THEN { [id |-> ev.saved_ids[i].id, res |-> ev.saved_res[i].v] :
                    i \in {j \in Slots : ev.saved_depth - 1 <= j /\ j < ev.saved_max_depth} }
         ELSE {}

\* a frame the filter evaluates: its function can fail and its result is
\* non-zero, or zero for a pointer-returning function
Eligible(f) ==
    /\ "CANT_FAIL" \notin func_flags_bss[f.id]
    /\ Int32Of(f.res) # 0 \/ "RET_PTR" \in func_flags_bss[f.id]

\* the normalized errno of a frame
NormErrno(f) == IF Int32Of(f.res) < 0 THEN -Int32Of(f.res) ELSE Int32Of(f.res)

\* C11: an error record is reported iff no eligible frame (primary, or
\* stitched when contiguous) has its normalized errno in the deny mask and
\* either no filter is configured or some eligible frame has its normalized
\* errno in the allow mask.
C11_FilterDecision ==
    (f_pc = "done" /\ f_ev.is_err) =>
        (f_out.reported <=>
            /\ \A f \in RecordFrames(f_ev) :
                   Eligible(f) => NormErrno(f) \notin env.deny_error_mask
            /\ \/ ~env.has_error_filter
               \/ \E f \in RecordFrames(f_ev) :
                     Eligible(f) /\ NormErrno(f) \in env.allow_error_mask)

\* a frame whose result the classification rule marks as failed
FailedFrame(f) == FuncExitFailed(func_flags_bss[f.id], f.res)

FailedFrames(ev) == { f \in RecordFrames(ev) : FailedFrame(f) }

\* C12: deny wins over allow, whatever the order of the rules: once -x rules
\* have named a non-empty set A, an error record whose only failing frame
\* has an errno outside A is dropped and one whose only failing frame has
\* an errno in A (and not denied) is reported; a record with a failing
\* frame whose errno a -X rule names is dropped, whatever its other frames.
C12_DenyWins ==
    (f_pc = "done" /\ f_ev.is_err /\ f_hist.allow # {}) =>
        \A f \in FailedFrames(f_ev) :
            /\ (FailedFrames(f_ev) = {f} /\ NormErrno(f) \notin f_hist.allow)
                   => ~f_out.reported
            /\ (FailedFrames(f_ev) = {f} /\ NormErrno(f) \in f_hist.allow \ f_hist.deny)
                   => f_out.reported
            /\ NormErrno(f) \in f_hist.deny => ~f_out.reported

\* the items of the primary frames and of the stitched frames of the output
PrimaryItems == { k \in DOMAIN f_out.fstack : k <= f_ev.max_depth }

StitchedItems == { k \in DOMAIN f_out.fstack : k > f_ev.max_depth }

\* C15 as stated: the item of primary frame i is open iff i >= the record's
\* depth and finished otherwise; the items of stitched frames are finished.
C15_OpenAtOrAboveDepth ==
    (f_pc = "done" /\ f_out.reported) =>
        /\ \A k \in PrimaryItems : ~f_out.fstack[k].finished <=> (k - 1 >= f_ev.depth)
        /\ \A k \in StitchedItems : f_out.fstack[k].finished

\* C15 amended: the item of primary frame i is finished iff i >= the record's
\* depth and open otherwise (every record the automaton emits has depth 0,
\* so each of its primary frames is finished); the items of stitched frames
\* are finished and marked stitched.
C15_FinishedAtOrAboveDepth ==
    (f_pc = "done" /\ f_out.reported) =>
        /\ \A k \in PrimaryItems :
               /\ f_out.fstack[k].finished <=> (k - 1 >= f_ev.depth)
               /\ ~f_out.fstack[k].stitched
        /\ \A k \in StitchedItems :
               f_out.fstack[k].finished /\ f_out.fstack[k].stitched

\* a reported record with a primary frame and a stitched frame
C15_Witness ==
    /\ f_pc = "done"
    /\ f_out.reported
    /\ PrimaryItems # {}
    /\ StitchedItems # {}
    /\ \A k \in DOMAIN f_out.fstack : f_out.fstack[k].finished

\* the captured stack in caller-to-callee order, as items not yet filtered
CallerOrder(ks) ==
    [k \in 1 .. Len(ks) |->
        [ksym |-> ks[Len(ks) - k + 1].ksym, off |-> ks[Len(ks) - k + 1].off,
         filtered |-> FALSE]]

\* a trampoline frame, a generated-stub frame or the stack-capture helper
Artifact(f) == is_bpf_tramp(f) \/ is_bpf_prog(f) \/ f.ksym = SymGetStack

NotArtifact(f) == ~Artifact(f)

NotFiltered(f) == ~f.filtered

\* the trampoline pattern starts at frame q of the caller-ordered stack c:
\* F at FTRACE_OFFSET, a trampoline, F again
PatternAt(c, q) ==
    /\ q + 2 <= Len(c)
    /\ c[q].ksym # NoSym
    /\ c[q].off = FTRACE_OFFSET
    /\ is_bpf_tramp(c[q + 1])
    /\ c[q + 2].ksym = c[q].ksym

\* the frames of c whose index is in K, in order, from index k on
RECURSIVE Pick(_, _, _)
Pick(c, K, k) ==
    IF k > Len(c) THEN <<>>
    ELSE (IF k \in K THEN <<c[k]>> ELSE <<>>) \o Pick(c, K, k + 1)

\* the captured stack (innermost first) without frames q and q+1 of its
\* caller order
WithoutPattern(ks, q) ==
    LET c == Pick(CallerOrder(ks), (1 .. Len(ks)) \ {q, q + 1}, 1)
    IN  [k \in 1 .. Len(c) |-> [ksym |-> c[Len(c) - k + 1].ksym,
                                off |-> c[Len(c) - k + 1].off]]

\* the extracted raw sequence has the symbols of the logical sequence, in
\* order, every frame resolved and none filtered
SameSymbols ==
    /\ Len(k_out.kstack) = Len(k_in.fnames)
    /\ \A k \in DOMAIN k_out.kstack :
          /\ k_out.kstack[k].ksym # NoSym
          /\ ~k_out.kstack[k].filtered
          /\ k_out.kstack[k].ksym = k_in.fnames[k]

\* C16: merging n logical frames with a raw sequence of the same symbols in
\* the same order (all resolved, none filtered) prints exactly n combined
\* lines, in order, and no raw-only line.
C16_MergeSameSymbols ==
    (k_pc = "out" /\ SameSymbols) =>
        k_out.lines = [k \in 1 .. Len(k_in.fnames) |->
                          Line(TRUE, k_in.fnames[k], TRUE, k_out.kstack[k])]

C16_Witness ==
    /\ k_pc = "out"
    /\ SameSymbols
    /\ k_in.fnames = <<SymA, SymB>>
    /\ Len(k_out.lines) = 2

\* C17: in default mode a raw stack with the trampoline pattern at frame q
\* is extracted and merged as the same stack without the pre-trampoline frame
\* and the trampoline; when the pattern opens the stack and the first logical
\* frame is F, the first line combines it with the post-trampoline frame.
C17_TrampolineCollapse ==
    (k_pc = "out" /\ ~k_in.emit_full_stacks) =>
        LET c == CallerOrder(k_in.kstack)
        IN  \A q \in DOMAIN c :
              PatternAt(c, q) =>
                LET alt == filter_kstack(WithoutPattern(k_in.kstack, q), FALSE)
                IN  /\ k_out.kstack = alt
                    /\ k_out.lines = MergeLines(k_in.fnames, alt, 1, 1)
                    /\ (q = 1 /\ k_in.fnames # <<>> /\ k_in.fnames[1] = c[1].ksym
                          /\ ~PatternAt(c, 3))
                         => k_out.lines[1] = Line(TRUE, k_in.fnames[1], TRUE, c[3])

\* [A+5, trampoline, A, B] merged with [A, B] in default mode: two combined
\* lines
C17_Witness ==
    /\ k_pc = "out"
    /\ ~k_in.emit_full_stacks
    /\ PatternAt(CallerOrder(k_in.kstack), 1)
    /\ Len(k_in.kstack) = 4
    /\ k_in.fnames = <<SymA, SymB>>
    /\ Len(k_out.lines) = 2
    /\ \A k \in DOMAIN k_out.lines : k_out.lines[k].has_f /\ k_out.lines[k].has_k

\* C18 as stated: in default mode the extracted sequence is the captured
\* stack in caller-to-callee order without its artifact frames, every other
\* frame kept once.
C18_DropsArtifactsOnly ==
    (k_pc = "out" /\ ~k_in.emit_full_stacks) =>
        k_out.kstack = SelectSeq(CallerOrder(k_in.kstack), NotArtifact)

\* C18 amended: in default mode the extracted sequence is the captured stack
\* in caller-to-callee order without its artifact frames and without the
\* pre-trampoline frame of each trampoline pattern, every other frame
\* (resolved or not) kept once.
C18_DropsArtifactsAndEntries ==
    (k_pc = "out" /\ ~k_in.emit_full_stacks) =>
        LET c == CallerOrder(k_in.kstack)
        IN  k_out.kstack = Pick(c, {k \in DOMAIN c : ~Artifact(c[k]) /\ ~PatternAt(c, k)}, 1)

\* default mode, two adjacent artifact frames, the last frame an artifact,
\* an unresolved frame kept
C18_Witness ==
    /\ k_pc = "out"
    /\ ~k_in.emit_full_stacks
    /\ LET c == CallerOrder(k_in.kstack)
       IN  /\ Len(c) = 4
           /\ Artifact(c[3]) /\ Artifact(c[4])
           /\ c[2].ksym = NoSym
           /\ ~Artifact(c[1])
    /\ Len(k_out.kstack) = 2

\* C19: in full-stacks mode the extracted sequence is the whole captured
\* stack in caller-to-callee order, every artifact frame marked filtered, and
\* its frames not marked filtered are, in order, what default mode extracts.
C19_FullKeepsAll ==
    (k_pc = "out" /\ k_in.emit_full_stacks) =>
        LET c == CallerOrder(k_in.kstack)
        IN  /\ Len(k_out.kstack) = Len(c)
            /\ \A k \in DOMAIN c :
                  /\ k_out.kstack[k].ksym = c[k].ksym
                  /\ k_out.kstack[k].off = c[k].off
                  /\ Artifact(c[k]) => k_out.kstack[k].filtered
            /\ SelectSeq(k_out.kstack, NotFiltered) = filter_kstack(k_in.kstack, FALSE)

\* full-stacks mode, a trampoline pattern followed by a generated stub
C19_Witness ==
    /\ k_pc = "out"
    /\ k_in.emit_full_stacks
    /\ PatternAt(CallerOrder(k_in.kstack), 1)
    /\ Len(k_out.kstack) = 4
    /\ is_bpf_prog(k_out.kstack[4])
    /\ k_out.kstack[1].filtered /\ k_out.kstack[2].filtered
    /\ ~k_out.kstack[3].filtered /\ k_out.kstack[4].filtered

\* C20: a rejected operation leaves the whole struct call_stack as it was: an
\* entry of a function without IS_ENTRY at depth 0, an entry at depth
\* MAX_FSTACK_DEPTH, and an exit at depth 0, which is always rejected.
C20_RejectedLeavesState ==
    /\ (last.op = "enter" /\ ~last.accepted) =>
          /\ stack = last.pre
          /\ \/ last.pre.depth = 0 /\ "IS_ENTRY" \notin func_flags_bss[last.id]
             \/ last.pre.depth = MAX_FSTACK_DEPTH
    /\ (last.op = "enter" /\ last.pre.depth = MAX_FSTACK_DEPTH) => ~last.accepted
    /\ (last.op = "enter" /\ last.pre.depth = 0 /\ "IS_ENTRY" \notin func_flags_bss[last.id])
          => ~last.accepted
    /\ (last.op = "exit" /\ last.pre.depth = 0) =>
          ~last.accepted /\ ~last.emitted /\ stack = last.pre

\* an entry rejected at depth MAX_FSTACK_DEPTH while a stitched segment is held
C20_Witness ==
    /\ last.op = "enter"
    /\ ~last.accepted
    /\ last.pre.depth = MAX_FSTACK_DEPTH
    /\ last.pre.saved_depth # 0
    /\ stack = last.pre

\* C21: a call made at depth MAX_FSTACK_DEPTH is untracked and harmless: when
\* the exit of that call follows its rejected entry, the automaton is as it
\* was before the entry, so the enclosing calls stay tracked.
C21_UntrackedCallHarmless ==
    [][(/\ last.op = "enter" /\ ~last.accepted
        /\ last.pre.depth = MAX_FSTACK_DEPTH
        /\ last'.op = "exit" /\ last'.id = last.id)
       => stack' = stack]_vars

\* C22: an accepted exit that brings depth to 0 emits, for a success as well
\* as for a failure; the record is the state with the result stored and
\* before the reset, and afterwards depth, max_depth, is_err, saved_depth,
\* saved_max_depth and kstack_sz are 0.
C22_EmitThenReset ==
    /\ (last.op = "exit" /\ last.accepted /\ last.pre.depth = 1) => last.emitted
    /\ last.emitted =>
          /\ last.op = "exit" /\ last.accepted /\ last.pre.depth = 1
          /\ stack.depth = 0 /\ stack.max_depth = 0 /\ ~stack.is_err
          /\ stack.saved_depth = 0 /\ stack.saved_max_depth = 0
          /\ stack.kstack_sz = 0
          /\ last_event.depth = 0
          /\ last_event.func_res[0].v = last.ret
          /\ last_event.is_err = (last.failed \/ last.pre.is_err)
          /\ last_event.max_depth = IF last.failed /\ ~last.pre.is_err THEN 1
                                    ELSE last.pre.max_depth
          /\ last_event.kstack_sz = IF last.failed /\ ~last.pre.is_err THEN 16
                                    ELSE last.pre.kstack_sz
          /\ last_event.saved_depth = last.pre.saved_depth
          /\ last_event.saved_max_depth = last.pre.saved_max_depth
          /\ last_event.saved_ids = last.pre.saved_ids
          /\ last_event.saved_res = last.pre.saved_res
          /\ last_event.func_ids = last.pre.func_ids
          /\ stack = EmitReset(last_event)

\* a failure record that carries a stitched segment and a raw stack has just
\* been emitted and the automaton is reset
C22_Witness ==
    /\ last.emitted
    /\ last_event.is_err
    /\ last_event.saved_depth # 0
    /\ last_event.kstack_sz # 0
    /\ stack.saved_depth = 0
    /\ stack.kstack_sz = 0

\* a success record has just been emitted and the automaton is reset
C22_WitnessSuccess ==
    /\ last.emitted
    /\ ~last_event.is_err
    /\ last_event.max_depth > 1
    /\ stack.max_depth = 0

\* the larger of two depths
MaxOf(a, b) == IF a >= b THEN a ELSE b

\* C23 as stated: outside a reset, max_depth is the highest depth reached
\* since the last reset, so a probe that leaves depth above 0 leaves
\* max_depth at the larger of its old value and the new depth.
C23_HighestDepthReached ==
    stack.depth # 0 => stack.max_depth = MaxOf(last.pre.max_depth, stack.depth)

\* the exit recorded the first failure of an error chain (lines 150-155)
FirstFailure ==
    /\ last.op = "exit" /\ last.accepted
    /\ last.failed /\ ~last.pre.is_err

\* C23 amended: depth <= max_depth always; an accepted entry sets max_depth to
\* the new depth, lowering it when the automaton had been deeper; the exit
\* that records the first failure sets max_depth to the depth of the failed
\* frame; every other probe that is not a reset leaves max_depth alone.
C23_MaxDepthRule ==
    /\ stack.depth <= stack.max_depth
    /\ (last.op = "enter" /\ last.accepted)
          => /\ stack.depth = last.pre.depth + 1
             /\ stack.max_depth = stack.depth
    /\ (FirstFailure /\ ~last.emitted)
          => stack.max_depth = last.pre.depth
    /\ (FirstFailure /\ last.emitted)
          => last_event.max_depth = last.pre.depth
    /\ (last.op = "exit" /\ last.accepted /\ ~FirstFailure /\ ~last.emitted)
          => stack.max_depth = last.pre.max_depth
    /\ (last.op = "exit" /\ last.accepted /\ ~FirstFailure /\ last.emitted)
          => last_event.max_depth = last.pre.max_depth
    /\ (~last.accepted /\ ~MismatchedExit)
          => stack.max_depth = last.pre.max_depth

\* an accepted entry has lowered max_depth below the depth reached earlier in
\* the same invocation
C23_Witness ==
    /\ last.op = "enter" /\ last.accepted
    /\ last.pre.max_depth = MAX_FSTACK_DEPTH
    /\ stack.max_depth = 2
    /\ stack.depth = 2

\* the first failure has lowered max_depth to the depth of the failed frame
C23_WitnessFailure ==
    /\ FirstFailure /\ ~last.emitted
    /\ last.pre.max_depth = MAX_FSTACK_DEPTH
    /\ stack.max_depth = 2
    /\ stack.depth = 1

\* the struct as the last probe left it, before the reset when it emitted
AfterProbe == IF last.emitted THEN last_event ELSE stack

\* C24 as stated: in a properly nested invocation whose raw stack has been
\* captured, no later failing exit captures it again.
C24_CapturedOncePerInvocation ==
    (/\ ok
     /\ last.op = "exit" /\ last.accepted /\ last.failed
     /\ last.pre.kstack_sz # 0)
       => AfterProbe.kstack = last.pre.kstack

\* C24 amended: the raw stack is captured exactly by an exit that fails while
\* is_err is clear, so once for each chain of failures; an entry clears is_err
\* and the next failure of the same invocation captures again.  No other
\* probe changes kstack, and kstack_sz changes otherwise only at a reset.
C24_CapturedOncePerChain ==
    /\ FirstFailure
          => /\ AfterProbe.kstack = AfterProbe.func_res[last.pre.depth - 1].call
             /\ AfterProbe.kstack_sz = 16
             /\ AfterProbe.is_err
    /\ ~FirstFailure
          => /\ AfterProbe.kstack = last.pre.kstack
             /\ ~MismatchedExit => AfterProbe.kstack_sz = last.pre.kstack_sz

\* a failing exit in an error state has left the raw stack of the first
\* failure of the chain in place
C24_Witness ==
    /\ ok
    /\ last.op = "exit" /\ last.accepted /\ last.failed
    /\ last.pre.is_err
    /\ last.pre.kstack_sz # 0
    /\ AfterProbe.kstack = last.pre.kstack
    /\ AfterProbe.kstack # AfterProbe.func_res[last.pre.depth - 1].call

\* the second chain of failures of one invocation has captured again
C24_WitnessRecapture ==
    /\ ok
    /\ FirstFailure
    /\ last.pre.kstack_sz # 0
    /\ AfterProbe.kstack # last.pre.kstack

\* the saved segment of a struct
SavedOf(s) ==
    <<s.saved_ids, s.saved_res, s.saved_lat, s.saved_depth, s.saved_max_depth>>

\* the last probe was an accepted entry that found is_err set and depth
\* different from max_depth (line 77)
StitchRan ==
    /\ last.op = "enter" /\ last.accepted
    /\ last.pre.is_err
    /\ last.pre.depth # last.pre.max_depth

\* C28: an accepted entry at depth d stores the id at index d, clears is_err,
\* sets depth and max_depth to d + 1, changes no other id and no result, leaves
\* kstack and kstack_sz alone and, when it did not stitch, the saved segment.
C28_AcceptedEnterWrites ==
    (last.op = "enter" /\ last.accepted) =>
        LET d == last.pre.depth
        IN  /\ d < MAX_FSTACK_DEPTH
            /\ stack.func_ids[d].id = last.id
            /\ stack.func_ids[d].call = calls
            /\ ~stack.is_err
            /\ stack.depth = d + 1
            /\ stack.max_depth = d + 1
            /\ \A i \in Slots \ {d} : stack.func_ids[i] = last.pre.func_ids[i]
            /\ stack.func_res = last.pre.func_res
            /\ \A i \in Slots \ {d} : stack.func_lat[i] = last.pre.func_lat[i]
            /\ stack.kstack = last.pre.kstack
            /\ stack.kstack_sz = last.pre.kstack_sz
            /\ ~StitchRan => SavedOf(stack) = SavedOf(last.pre)

\* an entry that did not stitch was accepted under an open caller while a raw
\* stack and a saved segment were held
C28_Witness ==
    /\ last.op = "enter" /\ last.accepted
    /\ ~StitchRan
    /\ last.pre.depth >= 1
    /\ last.pre.kstack_sz # 0
    /\ last.pre.saved_depth # 0
    /\ stack.func_ids[last.pre.depth] # last.pre.func_ids[last.pre.depth]

\* C29: the stitch runs exactly at an accepted entry that finds is_err set
\* and depth # max_depth, and before the frame is written: the saved copy
\* holds at the entry's index the id that was there, not the new one.  A
\* rejected entry, an entry with is_err clear and an exit never stitch: they
\* leave the saved arrays alone, and the saved depths too unless the exit
\* emits and zeroes them.
C29_StitchExactlyWhen ==
    /\ StitchRan =>
          /\ stack.saved_depth = last.pre.depth + 1
          /\ stack.saved_ids[last.pre.depth] = last.pre.func_ids[last.pre.depth]
          /\ stack.saved_ids[last.pre.depth] # stack.func_ids[last.pre.depth]
          /\ stack.saved_lat[last.pre.depth] = last.pre.func_lat[last.pre.depth]
    /\ (last.op = "enter" /\ ~StitchRan) => SavedOf(stack) = SavedOf(last.pre)
    /\ last.op = "exit" =>
          /\ stack.saved_ids = last.pre.saved_ids
          /\ stack.saved_res = last.pre.saved_res
          /\ stack.saved_lat = last.pre.saved_lat
          /\ \/ /\ stack.saved_depth = last.pre.saved_depth
                /\ stack.saved_max_depth = last.pre.saved_max_depth
             \/ /\ last.emitted
                /\ stack.saved_depth = 0
                /\ stack.saved_max_depth = 0

\* an entry has stitched the failed frame that it then overwrote
C29_Witness ==
    /\ StitchRan
    /\ last.pre.saved_depth = 0
    /\ stack.saved_depth = 2
    /\ stack.saved_res[1] = last.pre.func_res[1]
    /\ stack.func_ids[1].call = calls

\* C30: every stitch replaces the whole saved segment, whether or not the
\* previous one chains onto the primary frames: afterwards the saved arrays
\* are the primary arrays as they were before the entry, saved_depth is that
\* depth + 1 and saved_max_depth that max_depth.  A populated segment changes
\* only at a stitch and is cleared only by the exit that emits.
C30_StitchReplacesWholesale ==
    /\ StitchRan =>
          SavedOf(stack) = <<last.pre.func_ids, last.pre.func_res, last.pre.func_lat,
                             last.pre.depth + 1, last.pre.max_depth>>
    /\ (last.pre.saved_depth # 0 /\ ~StitchRan /\ ~last.emitted)
          => SavedOf(stack) = SavedOf(last.pre)
    /\ (last.pre.saved_depth # 0 /\ stack.saved_depth = 0) => last.emitted

\* a stitch has replaced a populated segment that chained onto the primary
\* frames
C30_Witness ==
    /\ StitchRan
    /\ last.pre.saved_depth # 0
    /\ last.pre.max_depth + 1 = last.pre.saved_depth
    /\ stack.saved_res # last.pre.saved_res
    /\ stack.saved_ids = last.pre.func_ids

\* a stitch has replaced a populated segment that did not chain
C30_WitnessUnchained ==
    /\ StitchRan
    /\ last.pre.saved_depth # 0
    /\ last.pre.max_depth + 1 # last.pre.saved_depth
    /\ stack.saved_res # last.pre.saved_res
    /\ stack.saved_depth = last.pre.depth + 1

\* C27: bpf_ringbuf_output dropping the record changes nothing for the
\* automaton: in the state after the drop it is Idle, exactly as the reset
\* leaves it after a stored record, and the next probe starts afresh: an entry
\* of an entry function is accepted at index 0 as a new call, any other
\* probe is rejected without a change, and no probe emits the dropped record.
C27_DropDoesNotBlock ==
    [][(last.emitted /\ ~last.delivered) =>
          /\ stack = EmitReset(last_event)
          /\ stack.depth = 0 /\ stack.max_depth = 0 /\ ~stack.is_err
          /\ stack.saved_depth = 0 /\ stack.kstack_sz = 0
          /\ emits' = emits /\ last_event' = last_event /\ ~last'.emitted
          /\ IF last'.op = "enter" /\ "IS_ENTRY" \in func_flags_bss[last'.id]
             THEN /\ last'.accepted
                  /\ stack'.depth = 1
                  /\ stack'.func_ids[0].call > last_event.func_ids[0].call
                  /\ stack' = push_call_stack(EmitReset(last_event),
                                              stack'.func_ids[0], now).st
             ELSE /\ ~last'.accepted
                  /\ stack' = stack]_vars

\* a record has been dropped by the transport and the automaton is Idle
C27_Witness ==
    /\ last.emitted /\ ~last.delivered
    /\ last_event.is_err
    /\ emits >= 1
    /\ stack.depth = 0
    /\ calls < MaxCalls

\* an invocation that follows an emission is being tracked
C27_WitnessNext ==
    /\ emits >= 1
    /\ ok
    /\ stack.depth = 2
    /\ stack.func_ids[0].call > last_event.func_ids[0].call

\* C25: every core is an automaton of its own: after any interleaving of the
\* cores' probes, the slot each core works on is in the state its automaton
\* reaches when given that core's probes alone, and the core has output the
\* records its automaton outputs alone.
C25_CoresIndependent ==
    \A c \in Cores :
        /\ cor_stacks[CpuSlot(c)] = cor_alone[c]
        /\ cor_out[c] = cor_alone_out[c]

\* the same for the cores whose slot no other core of the machine indexes
C25_UnaliasedCoresIndependent ==
    \A c \in UnaliasedCores :
        /\ cor_stacks[CpuSlot(c)] = cor_alone[c]
        /\ cor_out[c] = cor_alone_out[c]

\* an unaliased core has output a record between the probes of other cores
C25_UnaliasedWitness ==
    \E c \in UnaliasedCores :
        /\ Len(cor_out[c]) = 1
        /\ cor_out[c][1].is_err
        /\ \E c2 \in Cores \ {c} : cor_alone[c2].depth > 0

\* the record exceeds a capacity of struct call_stack
Malformed(e) ==
    \/ e.max_depth > MAX_FSTACK_DEPTH
    \/ e.saved_max_depth > MAX_FSTACK_DEPTH
    \/ e.kstack_n > MAX_KSTACK_DEPTH

\* C26: a decoded record whose max_depth or saved_max_depth exceeds
\* MAX_FSTACK_DEPTH, or whose raw stack exceeds MAX_KSTACK_DEPTH, and that
\* passes the success and error filters, is dropped with a diagnostic and
\* is not reconstructed.
C26_MalformedDropped ==
    (/\ d_pc = "out"
     /\ Malformed(d_in)
     /\ d_in.is_err \/ d_in.emit_success_stacks)
       => d_out.verdict = "dropped" /\ d_out.diag

\* the cursors before line n of the output: one more than the number of
\* earlier lines that show a logical frame, or a raw frame
CursorI(n) == 1 + Cardinality({m \in 1 .. (n - 1) : k_out.lines[m].has_f})

CursorJ(n) == 1 + Cardinality({m \in 1 .. (n - 1) : k_out.lines[m].has_k})

\* the raw frame at j can be combined with the logical frame at i
EligibleAt(i, j) ==
    /\ k_out.kstack[j].ksym # NoSym
    /\ ~k_out.kstack[j].filtered
    /\ k_out.kstack[j].ksym = k_in.fnames[i]

\* the first line printed while the logical frame i is the current one
FirstLineOf(i) ==
    CHOOSE n \in 1 .. (Len(k_out.lines) + 1) :
        CursorI(n) = i /\ \A m \in 1 .. (n - 1) : CursorI(m) < i

\* C31: the merge decides locally.  With both cursors inside their sequences
\* the line is a combined line (both cursors advance) iff the raw frame is
\* resolved, not filtered and has the symbol of the logical frame, and else a
\* raw-only line of that raw frame (only j advances); after the last logical
\* frame every line is raw-only; both sequences are consumed.  So a combined
\* line joins a logical frame with the first eligible raw frame at or after
\* the position of j when that logical frame became the current one.
C31_MergeDecidesLocally ==
    k_pc = "out" =>
        LET F == Len(k_in.fnames)
            K == Len(k_out.kstack)
            L == k_out.lines
        IN  /\ CursorI(Len(L) + 1) = F + 1
            /\ CursorJ(Len(L) + 1) = K + 1
            /\ \A n \in DOMAIN L :
                 LET i == CursorI(n)
                     j == CursorJ(n)
                 IN  /\ (i <= F /\ j <= K /\ EligibleAt(i, j))
                           => L[n] = Line(TRUE, k_in.fnames[i], TRUE, k_out.kstack[j])
                     /\ (i <= F /\ j <= K /\ ~EligibleAt(i, j))
                           => L[n] = Line(FALSE, NoSym, TRUE, k_out.kstack[j])
                     /\ (i > F) => L[n] = Line(FALSE, NoSym, TRUE, k_out.kstack[j])
                     /\ (L[n].has_f /\ L[n].has_k)
                           => /\ EligibleAt(i, j)
                              /\ \A q \in CursorJ(FirstLineOf(i)) .. (j - 1) :
                                    ~EligibleAt(i, q)
            /\ \A i \in 1 .. F :
                 (\E q \in CursorJ(FirstLineOf(i)) .. K : EligibleAt(i, q))
                    => \E n \in DOMAIN L :
                          CursorI(n) = i /\ L[n].has_f /\ L[n].has_k

\* a logical frame was combined with a raw frame after a raw-only line, and
\* raw frames were left for the flush
C31_Witness ==
    /\ k_pc = "out"
    /\ Len(k_in.fnames) = 2
    /\ Len(k_out.lines) >= 4
    /\ ~k_out.lines[1].has_f
    /\ k_out.lines[2].has_f /\ k_out.lines[2].has_k
    /\ \E n \in 3 .. (Len(k_out.lines) - 1) :
          k_out.lines[n].has_f /\ k_out.lines[n].has_k
    /\ ~k_out.lines[Len(k_out.lines)].has_f

\* the logical frames shown by the lines L, in the order of the lines
RECURSIVE LogicalOf(_)
LogicalOf(L) ==
    IF L = <<>> THEN <<>>
    ELSE (IF Head(L).has_f THEN <<Head(L).fname>> ELSE <<>>) \o LogicalOf(Tail(L))

\* the raw frames shown by the lines L, in the order of the lines
RECURSIVE RawOf(_)
RawOf(L) ==
    IF L = <<>> THEN <<>>
    ELSE (IF Head(L).has_k THEN <<Head(L).kitem>> ELSE <<>>) \o RawOf(Tail(L))

CombinedLines(L) == {n \in DOMAIN L : L[n].has_f /\ L[n].has_k}

\* C37: the merge ends and loses nothing: the lines show every logical frame
\* once and every extracted raw frame once, each sequence in its order; every
\* line shows a frame; there are F + K lines less the combined ones; and
\* once the raw frames have run out the logical frames left are printed as
\* logical-only lines.
C37_MergeLosesNothing ==
    k_pc = "out" =>
        LET L == k_out.lines
        IN  /\ LogicalOf(L) = k_in.fnames
            /\ RawOf(L) = k_out.kstack
            /\ \A n \in DOMAIN L : L[n].has_f \/ L[n].has_k
            /\ Len(L) = Len(k_in.fnames) + Len(k_out.kstack)
                           - Cardinality(CombinedLines(L))
            /\ \A n \in DOMAIN L :
                  CursorJ(n) > Len(k_out.kstack)
                     => L[n] = Line(TRUE, k_in.fnames[CursorI(n)], FALSE, NoItem)

\* the raw frames ran out first and a logical frame was printed alone after
\* a combined line and a raw-only line
C37_Witness ==
    /\ k_pc = "out"
    /\ Len(k_in.fnames) = 2
    /\ Len(k_out.kstack) >= 2
    /\ Cardinality(CombinedLines(k_out.lines)) = 1
    /\ k_out.lines[Len(k_out.lines)].has_f
    /\ ~k_out.lines[Len(k_out.lines)].has_k
    /\ \E n \in DOMAIN k_out.lines : ~k_out.lines[n].has_f

\* the logical frames ran out first and raw frames were flushed
C37_WitnessFlush ==
    /\ k_pc = "out"
    /\ Len(k_in.fnames) = 1
    /\ Len(k_out.lines) = Len(k_out.kstack)
    /\ Len(k_out.kstack) >= 3
    /\ k_out.lines[1].has_f

\* C32: a record with is_err clear is reported iff success stacks are
\* enabled, whatever the error filter would say of it; a record with is_err
\* set is judged by the error filter alone, whatever the success switch; a
\* record that is not reported yields no item at all, a reported one its
\* logical frames.
C32_SuccessSwitchAndFilter ==
    f_pc = "done" =>
        /\ ~f_ev.is_err => (f_out.reported <=> env.emit_success_stacks)
        /\ f_ev.is_err =>
              (f_out.reported <=>
                  (~env.has_error_filter \/ should_report_stack(env, f_ev)))
        /\ ~f_out.reported => f_out = NoOut
        /\ f_out.reported => f_out.fstack = filter_fstack(f_ev)

\* a success record that the error filter would reject is reported
C32_Witness ==
    /\ f_pc = "done"
    /\ ~f_ev.is_err
    /\ env.emit_success_stacks
    /\ env.has_error_filter
    /\ ~should_report_stack(env, f_ev)
    /\ f_out.reported
    /\ Len(f_out.fstack) >= 2

\* an error record is rejected by the filter although success stacks are on
C32_WitnessRejected ==
    /\ f_pc = "done"
    /\ f_ev.is_err
    /\ env.emit_success_stacks
    /\ ~f_out.reported
    /\ f_out.fstack = <<>>

\* C38: only failed frames influence the filter: for an error record without
\* a contiguous stitched segment and with a filter configured, the decision
\* is the one taken from the frames whose result the classification rule
\* marks as failed: none of them denied and one of them allowed.
C38_OnlyFailedFramesDecide ==
    (f_pc = "done" /\ f_ev.is_err /\ env.has_error_filter /\ ~Contiguous(f_ev)) =>
        (f_out.reported <=>
            /\ \A f \in FailedFrames(f_ev) : NormErrno(f) \notin env.deny_error_mask
            /\ \E f \in FailedFrames(f_ev) : NormErrno(f) \in env.allow_error_mask)

\* C39: for a function flagged NEEDS_SIGN_EXT the automaton classifies the
\* exit as failed iff the result as the consumer shows and filters it, the
\* low 32 bits sign-extended (filter_fstack lines 861-862, should_report_stack
\* lines 787-789), lies in [-4095, -1].
C39_AutomatonAgreesWithConsumer ==
    (c_pc = "out" /\ "NEEDS_SIGN_EXT" \in c_out.flags) =>
        (c_out.failed <=> Full64IsErrno(ItemRes(c_out.flags, c_in.ret)))

\* the primary frames of a record
PrimarySlots(ev) == {i \in Slots : i < ev.max_depth}

\* C33: whenever depth > 0 the function at index 0 is flagged IS_ENTRY; every
\* emitted record has depth 0 and 1 <= max_depth <= MAX_FSTACK_DEPTH and an
\* IS_ENTRY function at index 0; and when the invocation was properly nested
\* every primary frame holds a call entered in this invocation and the result
\* with which that very call exited.
C33_EmittedRecordShape ==
    /\ stack.depth > 0 => "IS_ENTRY" \in func_flags_bss[stack.func_ids[0].id]
    /\ last.emitted =>
          /\ last_event.depth = 0
          /\ 1 <= last_event.max_depth
          /\ last_event.max_depth <= MAX_FSTACK_DEPTH
          /\ "IS_ENTRY" \in func_flags_bss[last_event.func_ids[0].id]
          /\ last_event.func_res[0].v = last.ret
    /\ (last.emitted /\ Completed) =>
          \A i \in PrimarySlots(last_event) :
              /\ last_event.func_ids[i].call >= inv.start
              /\ last_event.func_ids[i].call <= calls
              /\ last_event.func_res[i].call = last_event.func_ids[i].call
              /\ i > 0 => last_event.func_ids[i].parent = last_event.func_ids[i - 1].call

\* a properly nested invocation has emitted a record of full depth that
\* holds a function not flagged IS_ENTRY below the entry function
C33_Witness ==
    /\ last.emitted /\ Completed
    /\ last_event.max_depth = MAX_FSTACK_DEPTH
    /\ "IS_ENTRY" \notin func_flags_bss[last_event.func_ids[1].id]
    /\ last_event.func_res[2].call = last_event.func_ids[2].call
    /\ last_event.func_ids[2].call > inv.start

\* C34: in every emitted record with is_err set the frame at index
\* max_depth - 1 holds a result that the classification rule marks as failed
\* for the function of that frame; and when the invocation was properly
\* nested the primary frames are, caller first, the calls that were open
\* when that failure was detected, each with its own result.
C34_DeepestFrameFailed ==
    /\ (last.emitted /\ last_event.is_err) =>
          LET top == last_event.max_depth - 1
          IN  FuncExitFailed(func_flags_bss[last_event.func_ids[top].id],
                             last_event.func_res[top].v)
    /\ (last.emitted /\ last_event.is_err /\ Completed) =>
          /\ Len(inv.chain) = last_event.max_depth
          /\ \A i \in PrimarySlots(last_event) :
                /\ inv.chain[i + 1].call = last_event.func_ids[i].call
                /\ inv.chain[i + 1].id = last_event.func_ids[i].id
                /\ inv.chain[i + 1].res = last_event.func_res[i].v
                /\ last_event.func_res[i].call = last_event.func_ids[i].call

\* an error record whose failure was detected two levels below the entry
\* function, after a deeper call had returned, and whose callers did not fail
C34_Witness ==
    /\ last.emitted /\ last_event.is_err /\ Completed
    /\ last_event.max_depth = 2
    /\ ~FuncExitFailed(func_flags_bss[last_event.func_ids[0].id],
                       last_event.func_res[0].v)
    /\ last_event.func_ids[2].call > last_event.func_ids[1].call

\* in an emitted record with is_err set the raw stack is the one captured
\* when the frame at index max_depth - 1 failed
ErrorRecordRawStack ==
    (last.emitted /\ last_event.is_err) =>
        /\ last_event.kstack_sz = 16
        /\ last_event.kstack = last_event.func_res[last_event.max_depth - 1].call

\* C35: the raw stack of an emitted record belongs to the failure the record
\* reports: a record with is_err clear has kstack_sz 0, and a record with
\* is_err set carries the raw stack captured when its deepest frame failed.
C35_RawStackBelongsToFailure ==
    /\ (last.emitted /\ ~last_event.is_err) => last_event.kstack_sz = 0
    /\ ErrorRecordRawStack

\* whenever a saved segment is held, 2 <= saved_depth <= saved_max_depth
\* <= MAX_FSTACK_DEPTH
SavedBounds(s) ==
    s.saved_depth # 0 =>
        /\ 2 <= s.saved_depth
        /\ s.saved_depth <= s.saved_max_depth
        /\ s.saved_max_depth <= MAX_FSTACK_DEPTH

\* the same in every state of the automaton and in the last record
AutomatonSavedBounds == SavedBounds(stack) /\ SavedBounds(last_event)

\* C36: for a record the automaton emits, filter_fstack yields max_depth
\* items when the stitched segment is not contiguous and saved_max_depth
\* items when it is: the primary frames 0 .. max_depth-1 in index order,
\* then the stitched frames saved_depth-1 .. saved_max_depth-1 in index
\* order; the record keeps 2 <= saved_depth <= saved_max_depth <=
\* MAX_FSTACK_DEPTH when saved_depth # 0, so the count is at most
\* MAX_FSTACK_DEPTH.
C36_LogicalFrameCount ==
    (f_pc = "done" /\ f_out.reported) =>
        LET r == f_out.fstack
        IN  /\ SavedBounds(f_ev)
            /\ Len(r) = IF Contiguous(f_ev) THEN f_ev.saved_max_depth
                        ELSE f_ev.max_depth
            /\ Len(r) <= MAX_FSTACK_DEPTH
            /\ \A k \in PrimaryItems :
                  /\ r[k].id = f_ev.func_ids[k - 1].id
                  /\ r[k].lat = f_ev.func_lat[k - 1]
                  /\ ~r[k].stitched
            /\ \A k \in StitchedItems :
                  /\ Contiguous(f_ev)
                  /\ f_ev.saved_depth - 1 <= k - 1
                  /\ k - 1 < f_ev.saved_max_depth
                  /\ r[k].id = f_ev.saved_ids[k - 1].id
                  /\ r[k].lat = f_ev.saved_lat[k - 1]
                  /\ r[k].stitched

\* a reported record with a contiguous stitched segment yields
\* saved_max_depth items, more than its max_depth
C36_Witness ==
    /\ f_pc = "done"
    /\ f_out.reported
    /\ Contiguous(f_ev)
    /\ Len(f_out.fstack) = f_ev.saved_max_depth
    /\ Len(f_out.fstack) > f_ev.max_depth

\* a reported record that holds a saved segment that is not contiguous
\* yields max_depth items
C36_WitnessNotContiguous ==
    /\ f_pc = "done"
    /\ f_out.reported
    /\ f_ev.saved_depth # 0
    /\ ~Contiguous(f_ev)
    /\ Len(f_out.fstack) = f_ev.max_depth
====
